---- MODULE Spec2Model ----
(***************************************************************************)
(* FlowBlock: the blocking decision engine (background/index.ts), the      *)
(* session/timer state machine and the Pomodoro cycle controller           *)
(* (utils/timer.ts) and the persisted records they share                   *)
(* (utils/storage.ts, appended to background/index.ts from line 449).      *)
(*                                                                         *)
(* Time is Date.now() in milliseconds, counted from a local midnight that  *)
(* falls on a Thursday (as the Unix epoch does in UTC).  Every handler is  *)
(* one action: it reads the persisted state, computes and writes back.     *)
(* An optional value (a storage key that may be absent, endTime?) is a     *)
(* sequence of length 0 or 1.  Strings that the code inspects (domains,    *)
(* patterns, "HH:MM") are sequences of one-character strings.              *)
(***************************************************************************)
EXTENDS Integers, Sequences, FiniteSets, TLC

VARIABLES
  now,              \* Date.now()
  currentSession,   \* storage key currentSession
  pausedSession,    \* storage key pausedSession
  pomodoroState,    \* storage key pomodoroState (merged with the defaults)
  focusSessions,    \* storage key focusSessions: the session history
  stats,            \* storage key stats (merged with the defaults)
  alarm,            \* the chrome alarm named flowblock-session-end
  nextId,           \* the next value generateId() returns
  blockedSites,     \* storage key blockedSites
  settings,         \* storage key settings (merged with the defaults)
  weeklySchedule,   \* storage key weeklySchedule (merged with the defaults)
  temporaryBreaks,  \* storage key temporaryBreaks: domain -> expiry
  browser,          \* running, closed, or starting (onStartup not yet handled)
  calls,            \* the async calls in flight: call id -> position and locals
  result            \* what the last handler returned to its caller

vars == <<now, currentSession, pausedSession, pomodoroState, focusSessions,
          stats, alarm, nextId, blockedSites, settings, weeklySchedule,
          temporaryBreaks, browser, calls, result>>

timerVars == <<currentSession, pausedSession, pomodoroState, focusSessions,
               stats, alarm, nextId>>

blockVars == <<blockedSites, settings, weeklySchedule, temporaryBreaks>>

----------------------------------------------------------------------------
(* Bounds of the model *)

\* sessions that generateId() may create in the timer specification
MaxSessions == 2
\* sessions in the streak specification
MaxStreakSessions == 3
\* sessions in the Pomodoro specification
MaxPomodoroSessions == 8
\* horizon of the clock in the timer specification, in minutes
MaxMinutes == 2
\* ids generateId() may hand out in the stats specification
MaxStatsIds == 3
\* horizon of the clock in the stats specification, in days
MaxStatsDays == 3
\* sessions of the Pomodoro command specification
MaxCommandSessions == 3
\* sessions and horizon (in minutes) of the restart specification
MaxRestartSessions == 2
MaxRestartMinutes == 2
\* sessions and horizon (in clock steps) of the pause specification
MaxPauseSessions == 2
MaxPauseSteps == 5
\* sessions and horizon (in minutes) of the elapsed-time specification
MaxElapsedSessions == 1
MaxElapsedMinutes == 27
\* horizon of the clock in the streak specification, in days
MaxDays == 4
\* horizon of the clock in the navigation specification, in minutes
MaxNavMinutes == 10
\* blocklist entries
MaxSites == 2
\* ids that generateId() may create in the navigation specification
MaxNavIds == 2
\* recorded blocks
MaxBlocks == 1
\* slots of the weekly schedule
MaxSlots == 1

----------------------------------------------------------------------------
(* Arithmetic of the host language *)

MsPerMinute == 60000
MsPerSecond == 1000
MsPerDay == 86400000

\* Math.round(n / d) for d > 0: the nearest integer, a half rounding up
MathRound(n, d) == (n \div d) + (IF 2 * (n % d) >= d THEN 1 ELSE 0)

MathMax(a, b) == IF a >= b THEN a ELSE b

\* { ...current, ...state }
Merge(current, partial) ==
  [k \in DOMAIN current |->
     IF k \in DOMAIN partial THEN partial[k] ELSE current[k]]

\* new Date(t).toDateString(): the calendar day of t
toDateString(t) == t \div MsPerDay

\* new Date(t).getDay(): 0 is Sunday; day 0 of the clock is a Thursday
getDay(t) == ((t \div MsPerDay) + 4) % 7

getHours(t) == (t % MsPerDay) \div 3600000

getMinutes(t) == (t % 3600000) \div MsPerMinute

----------------------------------------------------------------------------
(* Strings of the host language, as sequences of characters *)

UPPER == <<"A", "B", "C", "D", "E", "F", "G", "H", "I", "J", "K", "L", "M",
           "N", "O", "P", "Q", "R", "S", "T", "U", "V", "W", "X", "Y", "Z">>
LOWER == <<"a", "b", "c", "d", "e", "f", "g", "h", "i", "j", "k", "l", "m",
           "n", "o", "p", "q", "r", "s", "t", "u", "v", "w", "x", "y", "z">>

\* the lower-case letter of each upper-case letter
LowerOf ==
  [c \in {UPPER[k] : k \in 1..Len(UPPER)} |->
     LOWER[CHOOSE k \in 1..Len(UPPER) : UPPER[k] = c]]

toLowerCase(str) ==
  [i \in 1..Len(str) |->
     IF str[i] \in DOMAIN LowerOf THEN LowerOf[str[i]] ELSE str[i]]

startsWith(str, prefix) ==
  Len(str) >= Len(prefix) /\ SubSeq(str, 1, Len(prefix)) = prefix

endsWith(str, suffix) ==
  /\ Len(str) >= Len(suffix)
  /\ SubSeq(str, Len(str) - Len(suffix) + 1, Len(str)) = suffix

\* str.slice(n)
slice(str, n) == SubSeq(str, n + 1, Len(str))

\* str.replace(sub, ""): the first occurrence of sub is removed
removeFirst(str, sub) ==
  LET at == {i \in 1..(Len(str) - Len(sub) + 1) :
               SubSeq(str, i, i + Len(sub) - 1) = sub}
  IN IF at = {} THEN str
     ELSE LET i == CHOOSE k \in at : \A j \in at : k <= j
          IN SubSeq(str, 1, i - 1) \o SubSeq(str, i + Len(sub), Len(str))

\* the code units of the characters that "HH:MM" strings are made of
CodeUnits == <<"0", "1", "2", "3", "4", "5", "6", "7", "8", "9", ":">>

charCode(c) == CHOOSE k \in 1..Len(CodeUnits) : CodeUnits[k] = c

\* a < b on strings: the order of the first code unit that differs
stringLess(a, b) ==
  \E k \in 1..(Len(a) + 1) :
     /\ k <= Len(b)
     /\ \A j \in 1..(k - 1) : a[j] = b[j]
     /\ k = Len(a) + 1 \/ charCode(a[k]) < charCode(b[k])

\* n.toString() for 0 <= n < 100
toString(n) ==
  IF n < 10 THEN <<CodeUnits[n + 1]>>
  ELSE <<CodeUnits[(n \div 10) + 1], CodeUnits[(n % 10) + 1]>>

\* str.padStart(2, "0")
padStart2(str) == IF Len(str) < 2 THEN <<"0">> \o str ELSE str

WWW == <<"w", "w", "w", ".">>
HTTP == <<"h", "t", "t", "p", ":", "/", "/">>
HTTPS == <<"h", "t", "t", "p", "s", ":", "/", "/">>
DOT == <<".">>
WILDCARD == <<"*", ".">>

\* str.replace(/^www\./, "")
stripWww(str) == IF startsWith(str, WWW) THEN slice(str, Len(WWW)) ELSE str

----------------------------------------------------------------------------
(* Blocking: background/index.ts and the storage functions it uses.  A URL  *)
(* is what new URL(url) makes of it: whether it parses, its hostname, and   *)
(* whether it is a page of the extension itself.                            *)

extractDomain(url) ==
  IF ~url.parses THEN <<>> ELSE stripWww(toLowerCase(url.hostname))

\* a domainMatchesPattern whose suffix test needs no dot before the base
domainMatchesPattern_anySuffix(domain, pattern) ==
  LET normalizedPattern == stripWww(toLowerCase(pattern))
  IN IF startsWith(normalizedPattern, WILDCARD)
     THEN LET baseDomain == slice(normalizedPattern, 2)
          IN domain = baseDomain \/ endsWith(domain, baseDomain)
     ELSE \/ domain = normalizedPattern
          \/ endsWith(domain, normalizedPattern)

domainMatchesPattern(domain, pattern) ==
  LET normalizedPattern == stripWww(toLowerCase(pattern))
  IN IF startsWith(normalizedPattern, WILDCARD)
     THEN LET baseDomain == slice(normalizedPattern, 2)
          IN domain = baseDomain \/ endsWith(domain, DOT \o baseDomain)
     ELSE \/ domain = normalizedPattern
          \/ endsWith(domain, DOT \o normalizedPattern)

\* an isWithinSchedule whose slots end before their end minute
isWithinSchedule_exclusiveEnd(schedule) ==
  IF ~schedule.enabled \/ Len(schedule.slots) = 0 THEN TRUE
  ELSE LET currentDay == getDay(now)
           currentTime == padStart2(toString(getHours(now))) \o <<":">>
                            \o padStart2(toString(getMinutes(now)))
       IN \E i \in 1..Len(schedule.slots) :
             LET slot == schedule.slots[i]
             IN /\ slot.enabled
                /\ slot.day = currentDay
                /\ ~stringLess(currentTime, slot.startTime)
                /\ stringLess(currentTime, slot.endTime)

\* storage.ts isWithinSchedule
isWithinSchedule(schedule) ==
  IF ~schedule.enabled \/ Len(schedule.slots) = 0 THEN TRUE
  ELSE LET currentDay == getDay(now)
           currentTime == padStart2(toString(getHours(now))) \o <<":">>
                            \o padStart2(toString(getMinutes(now)))
       IN \E i \in 1..Len(schedule.slots) :
             LET slot == schedule.slots[i]
             IN /\ slot.enabled
                /\ slot.day = currentDay
                /\ ~stringLess(currentTime, slot.startTime)
                /\ ~stringLess(slot.endTime, currentTime)

\* The persisted records a navigation reads and writes.
BlockStore ==
  [blockedSites |-> blockedSites, stats |-> stats,
   temporaryBreaks |-> temporaryBreaks]

\* a cleanup that renews the expired break instead of deleting it
cleanUpBreak_renew(b, domain) ==
  IF /\ domain \in DOMAIN b.temporaryBreaks
     /\ b.temporaryBreaks[domain] # 0
     /\ now >= b.temporaryBreaks[domain]
  THEN [b EXCEPT !.temporaryBreaks[domain] = now + 300000]
  ELSE b

\* a cleanup that sweeps every expired break, not only the domain's
cleanUpBreak_sweep(b, domain) ==
  IF /\ domain \in DOMAIN b.temporaryBreaks
     /\ b.temporaryBreaks[domain] # 0
     /\ now >= b.temporaryBreaks[domain]
  THEN [b EXCEPT !.temporaryBreaks =
                    [d \in {e \in DOMAIN @ : now < @[e]} |-> @[d]]]
  ELSE b

\* lines 99-103: an expired break of the domain is deleted
cleanUpBreak(b, domain) ==
  IF /\ domain \in DOMAIN b.temporaryBreaks
     /\ b.temporaryBreaks[domain] # 0
     /\ now >= b.temporaryBreaks[domain]
  THEN [b EXCEPT !.temporaryBreaks =
                    [d \in DOMAIN @ \ {domain} |-> @[d]]]
  ELSE b

\* an isUrlBlocked that does not look at settings.enabled
isUrlBlocked_alwaysEnabled(b, url) ==
  LET domain == extractDomain(url)
  IN IF domain = <<>> \/ url.extensionPage
        \/ (weeklySchedule.enabled /\ ~isWithinSchedule(weeklySchedule))
        \/ (/\ domain \in DOMAIN b.temporaryBreaks
            /\ b.temporaryBreaks[domain] # 0
            /\ now < b.temporaryBreaks[domain])
     THEN [blocked |-> FALSE, store |-> b]
     ELSE [blocked |-> \E i \in 1..Len(b.blockedSites) :
                          domainMatchesPattern(domain, b.blockedSites[i].domain),
           store |-> cleanUpBreak(b, domain)]

\* the verdict, and the records after the call
isUrlBlocked(b, url) ==
  LET domain == extractDomain(url)
  IN IF domain = <<>> THEN [blocked |-> FALSE, store |-> b]
     ELSE IF url.extensionPage THEN [blocked |-> FALSE, store |-> b]
     ELSE IF ~settings.enabled THEN [blocked |-> FALSE, store |-> b]
     ELSE IF weeklySchedule.enabled /\ ~isWithinSchedule(weeklySchedule)
          THEN [blocked |-> FALSE, store |-> b]
     ELSE IF /\ domain \in DOMAIN b.temporaryBreaks
             /\ b.temporaryBreaks[domain] # 0
             /\ now < b.temporaryBreaks[domain]
          THEN [blocked |-> FALSE, store |-> b]
     ELSE [blocked |-> \E i \in 1..Len(b.blockedSites) :
                          domainMatchesPattern(domain, b.blockedSites[i].domain),
           store |-> cleanUpBreak(b, domain)]

\* the entries that match the URL's domain
Matching(sites, url) ==
  {i \in 1..Len(sites) :
     domainMatchesPattern(extractDomain(url), sites[i].domain)}

\* an incrementBlockCount without the break: every matching entry counts
incrementBlockCount_everyMatch(b, url) ==
  IF Matching(b.blockedSites, url) = {} THEN b
  ELSE [b EXCEPT
          !.blockedSites =
             [i \in 1..Len(@) |->
                IF i \in Matching(b.blockedSites, url)
                THEN [@[i] EXCEPT !.blockCount = @ + 1]
                ELSE @[i]],
          !.stats = Merge(@, [totalBlocks |-> b.stats.totalBlocks + 1])]

\* an incrementBlockCount that counts the entry but not the total
incrementBlockCount_entryOnly(b, url) ==
  LET matching == Matching(b.blockedSites, url)
  IN IF matching = {} THEN b
     ELSE LET first == CHOOSE i \in matching : \A j \in matching : i <= j
          IN [b EXCEPT !.blockedSites[first].blockCount = @ + 1]

incrementBlockCount(b, url) ==
  LET matching == Matching(b.blockedSites, url)
  IN IF matching = {} THEN b
     ELSE LET first == CHOOSE i \in matching : \A j \in matching : i <= j
          IN [b EXCEPT
                !.blockedSites[first].blockCount = @ + 1,
                !.stats = Merge(@, [totalBlocks |-> b.stats.totalBlocks + 1])]

\* storage.ts addBlockedSite: domain.toLowerCase()
\*   .replace(/^(https?:\/\/)?(www\.)?/, "")
normalizeSite(domain) ==
  LET lower == toLowerCase(domain)
      noScheme == IF startsWith(lower, HTTPS) THEN slice(lower, Len(HTTPS))
                  ELSE IF startsWith(lower, HTTP) THEN slice(lower, Len(HTTP))
                  ELSE lower
  IN stripWww(noScheme)

----------------------------------------------------------------------------
(* Timer: utils/timer.ts *)

DEFAULT_POMODORO_STATE ==
  [enabled |-> FALSE, workDuration |-> 25, breakDuration |-> 5,
   longBreakDuration |-> 15, sessionsUntilLongBreak |-> 4, currentCycle |-> 1,
   isOnBreak |-> FALSE, totalCyclesCompleted |-> 0]

DEFAULT_STATS ==
  [totalFocusTime |-> 0, totalBlocks |-> 0, currentStreak |-> 0,
   longestStreak |-> 0, sessionsCompleted |-> 0]

\* The persisted records a timer operation reads and writes, with the error it
\* has thrown (none: <<>>).
Store ==
  [currentSession |-> currentSession, pausedSession |-> pausedSession,
   pomodoroState |-> pomodoroState, focusSessions |-> focusSessions,
   stats |-> stats, alarm |-> alarm, nextId |-> nextId, error |-> <<>>]

Commit(s) ==
  /\ currentSession' = s.currentSession
  /\ pausedSession' = s.pausedSession
  /\ pomodoroState' = s.pomodoroState
  /\ focusSessions' = s.focusSessions
  /\ stats' = s.stats
  /\ alarm' = s.alarm
  /\ nextId' = s.nextId

Throw(s, message) == [s EXCEPT !.error = <<message>>]

SessionNotFound == "Session not found or not active"
NoActiveSession == "No active session to pause"
SessionAlreadyEnded == "Session has already ended"
NoSessionToResume == "No active session to resume"
NotPaused == "Session is not paused"

updatePomodoroState(s, partial) ==
  [s EXCEPT !.pomodoroState = Merge(@, partial)]

updateStats(s, partial) == [s EXCEPT !.stats = Merge(@, partial)]

\* a saveFocusSession that appends without looking for the id
saveFocusSession_append(sessions, session) == Append(sessions, session)

\* storage.ts saveFocusSession: replace the entry with the same id, else append
saveFocusSession(sessions, session) ==
  IF \E i \in 1..Len(sessions) : sessions[i].id = session.id
  THEN LET index == CHOOSE i \in 1..Len(sessions) :
                      /\ sessions[i].id = session.id
                      /\ \A j \in 1..(i - 1) : sessions[j].id # session.id
       IN [sessions EXCEPT ![index] = session]
  ELSE Append(sessions, session)

\* a startFocusSession that leaves the paused record of the old session
startFocusSession_keepPaused(s, durationMinutes, type) ==
  LET cleared == IF s.currentSession # <<>>
                 THEN [s EXCEPT !.currentSession = <<>>, !.alarm = <<>>]
                 ELSE s
      session == [id |-> s.nextId, startTime |-> now, endTime |-> <<>>,
                  duration |-> durationMinutes, completed |-> FALSE,
                  type |-> type]
  IN [cleared EXCEPT !.nextId = @ + 1,
                     !.alarm = <<[when |-> now + durationMinutes * MsPerMinute]>>,
                     !.currentSession = <<session>>,
                     !.focusSessions = saveFocusSession(@, session)]

startFocusSession(s, durationMinutes, type) ==
  LET cleared == IF s.currentSession # <<>>
                 THEN [s EXCEPT !.currentSession = <<>>, !.pausedSession = <<>>,
                                !.alarm = <<>>]
                 ELSE s
      session == [id |-> s.nextId, startTime |-> now, endTime |-> <<>>,
                  duration |-> durationMinutes, completed |-> FALSE,
                  type |-> type]
  IN [cleared EXCEPT !.nextId = @ + 1,
                     !.alarm = <<[when |-> now + durationMinutes * MsPerMinute]>>,
                     !.currentSession = <<session>>,
                     !.focusSessions = saveFocusSession(@, session)]

\* a completedStats that restarts a broken streak at 0
completedStats_streakFromZero(s, session, actualDurationMinutes) ==
  LET st == s.stats
      today == toDateString(now)
      lastSessionDate == IF st.sessionsCompleted > 0
                         THEN <<toDateString(session.startTime)>>
                         ELSE <<>>
      yesterday == toDateString(now - MsPerDay)
      newStreak == IF lastSessionDate # <<today>>
                   THEN IF lastSessionDate = <<yesterday>>
                        THEN st.currentStreak + 1
                        ELSE 0
                   ELSE st.currentStreak
  IN updateStats(s, [totalFocusTime |-> st.totalFocusTime + actualDurationMinutes,
                     sessionsCompleted |-> st.sessionsCompleted + 1,
                     currentStreak |-> newStreak,
                     longestStreak |-> MathMax(st.longestStreak, newStreak)])

\* a completedStats that stores the new streak as the longest one
completedStats_noMax(s, session, actualDurationMinutes) ==
  LET st == s.stats
      today == toDateString(now)
      lastSessionDate == IF st.sessionsCompleted > 0
                         THEN <<toDateString(session.startTime)>>
                         ELSE <<>>
      yesterday == toDateString(now - MsPerDay)
      newStreak == IF lastSessionDate # <<today>>
                   THEN IF lastSessionDate = <<yesterday>>
                        THEN st.currentStreak + 1
                        ELSE 1
                   ELSE st.currentStreak
  IN updateStats(s, [totalFocusTime |-> st.totalFocusTime + actualDurationMinutes,
                     sessionsCompleted |-> st.sessionsCompleted + 1,
                     currentStreak |-> newStreak,
                     longestStreak |-> newStreak])

\* lines 168-187: the stats of a completed session
completedStats(s, session, actualDurationMinutes) ==
  LET st == s.stats
      today == toDateString(now)
      lastSessionDate == IF st.sessionsCompleted > 0
                         THEN <<toDateString(session.startTime)>>
                         ELSE <<>>
      yesterday == toDateString(now - MsPerDay)
      newStreak == IF lastSessionDate # <<today>>
                   THEN IF lastSessionDate = <<yesterday>>
                        THEN st.currentStreak + 1
                        ELSE 1
                   ELSE st.currentStreak
  IN updateStats(s, [totalFocusTime |-> st.totalFocusTime + actualDurationMinutes,
                     sessionsCompleted |-> st.sessionsCompleted + 1,
                     currentStreak |-> newStreak,
                     longestStreak |-> MathMax(st.longestStreak, newStreak)])

\* a finishSession that removes the current-session key alone
finishSession_keepPaused(s, completed) ==
  LET session == s.currentSession[1]
      updatedSession ==
        [session EXCEPT !.endTime = <<now>>, !.completed = completed]
      ended == [s EXCEPT
                  !.focusSessions = saveFocusSession(@, updatedSession),
                  !.alarm = <<>>,
                  !.currentSession = <<>>]
  IN IF completed
     THEN completedStats(ended, session,
                         MathRound(now - session.startTime, MsPerMinute))
     ELSE ended

\* a finishSession that counts the nominal duration of the session
finishSession_nominal(s, completed) ==
  LET session == s.currentSession[1]
      updatedSession ==
        [session EXCEPT !.endTime = <<now>>, !.completed = completed]
      ended == [s EXCEPT
                  !.focusSessions = saveFocusSession(@, updatedSession),
                  !.alarm = <<>>,
                  !.currentSession = <<>>,
                  !.pausedSession = <<>>]
  IN IF completed
     THEN completedStats(ended, session, session.duration)
     ELSE ended

\* a finishSession that breaks the streak when a session is abandoned
finishSession_abandonBreaksStreak(s, completed) ==
  LET session == s.currentSession[1]
      updatedSession ==
        [session EXCEPT !.endTime = <<now>>, !.completed = completed]
      ended == [s EXCEPT
                  !.focusSessions = saveFocusSession(@, updatedSession),
                  !.alarm = <<>>,
                  !.currentSession = <<>>,
                  !.pausedSession = <<>>]
  IN IF completed
     THEN completedStats(ended, session,
                         MathRound(now - session.startTime, MsPerMinute))
     ELSE updateStats(ended, [currentStreak |-> 0])

\* lines 155-187: the current session ends now
finishSession(s, completed) ==
  LET session == s.currentSession[1]
      endTime == now
      actualDurationMinutes ==
        MathRound(endTime - session.startTime, MsPerMinute)
      updatedSession ==
        [session EXCEPT !.endTime = <<endTime>>, !.completed = completed]
      ended == [s EXCEPT
                  !.focusSessions = saveFocusSession(@, updatedSession),
                  !.alarm = <<>>,
                  !.currentSession = <<>>,
                  !.pausedSession = <<>>]
  IN IF completed
     THEN completedStats(ended, session, actualDurationMinutes)
     ELSE ended

\* an endFocusSession that does not compare the id
endFocusSession_anyId(s, sessionId, completed) ==
  IF s.currentSession = <<>>
  THEN Throw(s, SessionNotFound)
  ELSE finishSession(s, completed)

\* an endFocusSession that records every ended session as completed
endFocusSession_alwaysCompleted(s, sessionId, completed) ==
  IF s.currentSession = <<>> \/ s.currentSession[1].id # sessionId
  THEN Throw(s, SessionNotFound)
  ELSE finishSession(s, TRUE)

endFocusSession(s, sessionId, completed) ==
  IF s.currentSession = <<>> \/ s.currentSession[1].id # sessionId
  THEN Throw(s, SessionNotFound)
  ELSE finishSession(s, completed)

\* a getTimeRemaining that reads the clock for a paused session too
getTimeRemaining_ignorePaused(s) ==
  IF s.currentSession = <<>> THEN 0
  ELSE LET session == s.currentSession[1]
           remainingMs == session.duration * 60 * 1000 - (now - session.startTime)
       IN MathMax(0, MathRound(remainingMs, MsPerSecond))

getTimeRemaining(s) ==
  IF s.currentSession = <<>> THEN 0
  ELSE IF s.pausedSession # <<>> THEN s.pausedSession[1].remainingSeconds
  ELSE LET session == s.currentSession[1]
           elapsed == now - session.startTime
           totalMs == session.duration * 60 * 1000
           remainingMs == totalMs - elapsed
       IN MathMax(0, MathRound(remainingMs, MsPerSecond))

\* a pauseSession that leaves the alarm alone
pauseSession_keepAlarm(s) ==
  IF s.currentSession = <<>> THEN Throw(s, NoActiveSession)
  ELSE IF getTimeRemaining(s) <= 0 THEN Throw(s, SessionAlreadyEnded)
  ELSE [s EXCEPT !.pausedSession =
                    <<[pausedAt |-> now,
                       remainingSeconds |-> getTimeRemaining(s)]>>]

\* a pauseSession that does not look at the remaining time
pauseSession_noExpiryCheck(s) ==
  IF s.currentSession = <<>> THEN Throw(s, NoActiveSession)
  ELSE [s EXCEPT !.alarm = <<>>,
                 !.pausedSession =
                    <<[pausedAt |-> now,
                       remainingSeconds |-> getTimeRemaining(s)]>>]

pauseSession(s) ==
  IF s.currentSession = <<>> THEN Throw(s, NoActiveSession)
  ELSE LET remainingSeconds == getTimeRemaining(s)
       IN IF remainingSeconds <= 0 THEN Throw(s, SessionAlreadyEnded)
          ELSE [s EXCEPT !.alarm = <<>>,
                         !.pausedSession =
                            <<[pausedAt |-> now,
                               remainingSeconds |-> remainingSeconds]>>]

resumeSession(s) ==
  IF s.currentSession = <<>> THEN Throw(s, NoSessionToResume)
  ELSE IF s.pausedSession = <<>> THEN Throw(s, NotPaused)
  ELSE LET session == s.currentSession[1]
           paused == s.pausedSession[1]
           pauseDuration == now - paused.pausedAt
           updatedSession ==
             [session EXCEPT !.startTime = session.startTime + pauseDuration]
       IN [s EXCEPT
             \* delayInMinutes: remainingSeconds / 60
             !.alarm = <<[when |-> now + paused.remainingSeconds * MsPerSecond]>>,
             !.currentSession = <<updatedSession>>,
             !.pausedSession = <<>>]

\* a transition that decides the long break on the count before this completion
pomodoroTransition_countBefore(p) ==
  IF p.isOnBreak
  THEN [nextDuration |-> p.workDuration, nextType |-> "focus",
        message |-> "Break over! Starting work session",
        newState |-> [isOnBreak |-> FALSE]]
  ELSE LET isLongBreak ==
             p.totalCyclesCompleted % p.sessionsUntilLongBreak = 0
       IN [nextDuration |-> IF isLongBreak THEN p.longBreakDuration
                            ELSE p.breakDuration,
           nextType |-> "break",
           message |-> IF isLongBreak THEN "Great work! Enjoy a long break!"
                       ELSE "Session complete! Take a break.",
           newState |-> [isOnBreak |-> TRUE,
                         currentCycle |-> p.currentCycle + 1,
                         totalCyclesCompleted |-> p.totalCyclesCompleted + 1]]

\* lines 85-112: the next session and the state change of a Pomodoro transition
\* a pomodoroTransition that leaves isOnBreak set when a break has ended
pomodoroTransition_keepOnBreak(p) ==
  IF p.isOnBreak
  THEN [nextDuration |-> p.workDuration, nextType |-> "focus",
        message |-> "Break over! Starting work session",
        newState |-> [isOnBreak |-> TRUE]]
  ELSE LET cyclesCompleted == p.totalCyclesCompleted + 1
           isLongBreak == cyclesCompleted % p.sessionsUntilLongBreak = 0
       IN [nextDuration |-> IF isLongBreak THEN p.longBreakDuration
                            ELSE p.breakDuration,
           nextType |-> "break",
           message |-> IF isLongBreak THEN "Great work! Enjoy a long break!"
                       ELSE "Session complete! Take a break.",
           newState |-> [isOnBreak |-> TRUE,
                         currentCycle |-> p.currentCycle + 1,
                         totalCyclesCompleted |-> cyclesCompleted]]

pomodoroTransition(p) ==
  IF p.isOnBreak
  THEN [nextDuration |-> p.workDuration, nextType |-> "focus",
        message |-> "Break over! Starting work session",
        newState |-> [isOnBreak |-> FALSE]]
  ELSE LET cyclesCompleted == p.totalCyclesCompleted + 1
           isLongBreak == cyclesCompleted % p.sessionsUntilLongBreak = 0
       IN [nextDuration |-> IF isLongBreak THEN p.longBreakDuration
                            ELSE p.breakDuration,
           nextType |-> "break",
           message |-> IF isLongBreak THEN "Great work! Enjoy a long break!"
                       ELSE "Session complete! Take a break.",
           newState |-> [isOnBreak |-> TRUE,
                         currentCycle |-> p.currentCycle + 1,
                         totalCyclesCompleted |-> cyclesCompleted]]

\* a handlePomodoroSessionEnd that does not look at the enabled flag
handlePomodoroSessionEnd_ignoreEnabled(s) ==
  LET t == pomodoroTransition(s.pomodoroState)
  IN startFocusSession(updatePomodoroState(s, t.newState),
                       t.nextDuration, t.nextType)

handlePomodoroSessionEnd(s) ==
  IF ~s.pomodoroState.enabled THEN s
  ELSE LET t == pomodoroTransition(s.pomodoroState)
       IN startFocusSession(updatePomodoroState(s, t.newState),
                            t.nextDuration, t.nextType)

\* what handlePomodoroSessionEnd returns: null (<<>>) when Pomodoro is disabled
pomodoroSessionEndResult(s) ==
  IF ~s.pomodoroState.enabled THEN <<>>
  ELSE LET after == handlePomodoroSessionEnd(s)
       IN <<[nextSession |-> after.currentSession[1],
             pomodoroState |-> after.pomodoroState,
             message |-> pomodoroTransition(s.pomodoroState).message]>>

\* a startPomodoroMode that does not reset the cycle counters
startPomodoroMode_keepCycle(s, workDuration, breakDuration, longBreakDuration) ==
  startFocusSession(
    updatePomodoroState(s, [enabled |-> TRUE, workDuration |-> workDuration,
                            breakDuration |-> breakDuration,
                            longBreakDuration |-> longBreakDuration,
                            isOnBreak |-> FALSE]),
    workDuration, "focus")

startPomodoroMode(s, workDuration, breakDuration, longBreakDuration) ==
  startFocusSession(
    updatePomodoroState(s, [enabled |-> TRUE, workDuration |-> workDuration,
                            breakDuration |-> breakDuration,
                            longBreakDuration |-> longBreakDuration,
                            currentCycle |-> 1, isOnBreak |-> FALSE,
                            totalCyclesCompleted |-> 0]),
    workDuration, "focus")

\* a stopPomodoroMode that ends the current session as completed
stopPomodoroMode_completed(s) ==
  LET ended == IF s.currentSession # <<>>
               THEN endFocusSession(s, s.currentSession[1].id, TRUE)
               ELSE s
  IN updatePomodoroState(ended, [enabled |-> FALSE])

stopPomodoroMode(s) ==
  LET ended == IF s.currentSession # <<>>
               THEN endFocusSession(s, s.currentSession[1].id, FALSE)
               ELSE s
  IN updatePomodoroState(ended, [enabled |-> FALSE])

----------------------------------------------------------------------------
(* Handlers of the timer: the command surface (handleMessage), the alarm     *)
(* listener, the startup listener and the timer's own pause and resume.      *)
(* cap bounds the sessions generateId() may create.                          *)

\* the error payload of a command: sendResponse({ error: error.message })
Response(op, s) == [op |-> op, error |-> s.error]

\* case "startSession"
StartSession(duration, cap) ==
  /\ nextId <= cap
  /\ LET s == startFocusSession(Store, duration, "focus")
     IN /\ Commit(s)
        /\ result' = [op |-> "startSession", error |-> <<>>,
                      session |-> s.currentSession[1]]
  /\ UNCHANGED <<now, calls, browser, blockVars>>

\* case "endSession"
EndSession(sessionId, completed) ==
  /\ LET s == endFocusSession(Store, sessionId, completed)
     IN /\ Commit(s)
        /\ result' = [op |-> "endSession", error |-> s.error,
                      sessionId |-> sessionId, completed |-> completed]
  /\ UNCHANGED <<now, calls, browser, blockVars>>

\* the case labels of handleMessage
MessageTypes ==
  {"getStatus", "toggleBlocking", "startSession", "endSession", "addSite",
   "removeSite", "updateSettings", "getTimeRemaining", "startPomodoro",
   "stopPomodoro", "getPomodoroState", "updatePomodoroSettings", "skipToNext",
   "getWeeklySchedule", "updateWeeklySchedule", "addScheduleSlot",
   "removeScheduleSlot", "isScheduleActive"}

\* `Unknown message type: ${message.type}`
UnknownMessageType(type) == <<"Unknown message type: ", type>>

\* a default case that answers without an error
handleMessageDefault_silent(s, type) == s

\* default: throw new Error(...)
handleMessageDefault(s, type) == Throw(s, UnknownMessageType(type))

\* a message whose type matches no case label; the listener's catch answers
\* { error: error.message }
OnMessage(type) ==
  /\ type \notin MessageTypes
  /\ LET s == handleMessageDefault(Store, type)
     IN Commit(s) /\ result' = [op |-> "onMessage", type |-> type,
                                error |-> s.error]
  /\ UNCHANGED <<now, calls, browser, blockVars>>

\* timer.ts pauseSession
PauseSession ==
  /\ LET s == pauseSession(Store)
     IN Commit(s) /\ result' = Response("pauseSession", s)
  /\ UNCHANGED <<now, calls, browser, blockVars>>

\* timer.ts resumeSession
ResumeSession ==
  /\ LET s == resumeSession(Store)
     IN Commit(s) /\ result' = Response("resumeSession", s)
  /\ UNCHANGED <<now, calls, browser, blockVars>>

\* case "startPomodoro"
StartPomodoro(workDuration, breakDuration, longBreakDuration, cap) ==
  /\ nextId <= cap
  /\ LET s == startPomodoroMode(Store, workDuration, breakDuration,
                                longBreakDuration)
     IN /\ Commit(s)
        /\ result' = [op |-> "startPomodoro", error |-> <<>>,
                      payload |-> <<workDuration, breakDuration,
                                    longBreakDuration>>,
                      session |-> s.currentSession[1],
                      pomodoroState |-> s.pomodoroState]
  /\ UNCHANGED <<now, calls, browser, blockVars>>

\* case "stopPomodoro"
StopPomodoro ==
  /\ LET s == stopPomodoroMode(Store)
     IN Commit(s) /\ result' = Response("stopPomodoro", s)
  /\ UNCHANGED <<now, calls, browser, blockVars>>

\* case "updatePomodoroSettings"
UpdatePomodoroSettings(pomodoroSettings) ==
  /\ LET s == updatePomodoroState(Store, pomodoroSettings)
     IN /\ Commit(s)
        /\ result' = [op |-> "updatePomodoroSettings", error |-> <<>>,
                      pomodoroState |-> s.pomodoroState]
  /\ UNCHANGED <<now, calls, browser, blockVars>>

\* case "skipToNext"
SkipToNext(cap) ==
  /\ (currentSession # <<>> /\ pomodoroState.enabled) => nextId <= cap
  /\ IF currentSession # <<>> /\ pomodoroState.enabled
     THEN LET ended == endFocusSession(Store, currentSession[1].id, FALSE)
              s == handlePomodoroSessionEnd(ended)
          IN /\ Commit(s)
             /\ result' = [op |-> "skipToNext", error |-> <<>>,
                           transition |-> pomodoroSessionEndResult(ended)]
     ELSE /\ UNCHANGED timerVars
          /\ result' = [op |-> "skipToNext",
                        error |-> <<"No active Pomodoro session">>,
                        transition |-> <<>>]
  /\ UNCHANGED <<now, calls, browser, blockVars>>

\* chrome.alarms.onAlarm: the one-shot alarm is due, fires and is gone
OnAlarm(cap) ==
  /\ alarm # <<>>
  /\ now >= alarm[1].when
  /\ (currentSession # <<>> /\ pomodoroState.enabled) => nextId <= cap
  /\ LET fired == [Store EXCEPT !.alarm = <<>>]
         enabled == fired.pomodoroState.enabled
         ended == IF fired.currentSession # <<>>
                  THEN endFocusSession(fired, fired.currentSession[1].id, TRUE)
                  ELSE fired
         s == IF fired.currentSession # <<>> /\ enabled
              THEN handlePomodoroSessionEnd(ended)
              ELSE ended
         transition == IF fired.currentSession # <<>> /\ enabled
                       THEN pomodoroSessionEndResult(ended)
                       ELSE <<>>
     IN /\ Commit(s)
        /\ result' = [op |-> "onAlarm", error |-> <<>>,
                      transition |-> transition,
                      notification |->
                        IF /\ fired.currentSession # <<>>
                           /\ settings.notificationsEnabled
                           /\ (enabled => transition # <<>>)
                        THEN <<IF ~enabled THEN "Focus Session Complete!"
                               ELSE IF transition[1].pomodoroState.isOnBreak
                                    THEN "Break Time!"
                                    ELSE "Focus Time!">>
                        ELSE <<>>]
  /\ UNCHANGED <<now, calls, browser, blockVars>>

\* chrome.runtime.onStartup
OnStartup ==
  /\ LET expired == /\ currentSession # <<>>
                    /\ now - currentSession[1].startTime
                         >= currentSession[1].duration * 60 * 1000
         s == IF expired
              THEN endFocusSession(Store, currentSession[1].id, TRUE)
              ELSE Store
     IN /\ Commit(s)
        /\ result' = [op |-> "onStartup", error |-> <<>>,
                      notification |->
                        IF expired /\ settings.notificationsEnabled
                        THEN <<"Focus Session Completed">>
                        ELSE <<>>]
  /\ browser' = "running"
  /\ UNCHANGED <<now, calls, blockVars>>

\* the browser is closed: the storage and the alarm stay, no listener runs
CloseBrowser ==
  /\ browser # "closed"
  /\ browser' = "closed"
  /\ result' = [op |-> "closeBrowser", error |-> <<>>]
  /\ UNCHANGED <<now, calls, timerVars, blockVars>>

\* the browser is launched: the service worker registers its listeners, and
\* the onStartup event is dispatched like any other event
LaunchBrowser ==
  /\ browser = "closed"
  /\ browser' = "starting"
  /\ result' = [op |-> "launchBrowser", error |-> <<>>]
  /\ UNCHANGED <<now, calls, timerVars, blockVars>>

\* the wall clock moves on by d milliseconds, no later than the horizon
AdvanceTime(d, horizon) ==
  /\ now + d <= horizon
  /\ now' = now + d
  /\ result' = [op |-> "advanceTime", error |-> <<>>]
  /\ UNCHANGED <<timerVars, blockVars, browser, calls>>

----------------------------------------------------------------------------
Init ==
  /\ now = 0
  /\ currentSession = <<>>
  /\ pausedSession = <<>>
  /\ pomodoroState = DEFAULT_POMODORO_STATE
  /\ focusSessions = <<>>
  /\ stats = DEFAULT_STATS
  /\ alarm = <<>>
  /\ nextId = 1
  /\ blockedSites = <<>>
  /\ settings = [enabled |-> TRUE, notificationsEnabled |-> TRUE]
  /\ weeklySchedule = [enabled |-> FALSE, slots |-> <<>>]
  /\ temporaryBreaks = <<>>
  /\ browser = "running"
  /\ calls = <<>>
  /\ result = [op |-> "init"]

\* the wall clock reaches the time the pending alarm is due
AdvanceToAlarm ==
  /\ alarm # <<>>
  /\ now < alarm[1].when
  /\ now' = alarm[1].when
  /\ result' = [op |-> "advanceTime", error |-> <<>>]
  /\ UNCHANGED <<timerVars, blockVars, browser, calls>>

----------------------------------------------------------------------------
(* Handlers of the blocking engine: the navigation listener, the commands   *)
(* on the blocklist, the settings and the schedule, and the break button of *)
(* the blocked page.  category and createdAt of a blocked site are stored   *)
(* and never read; they are left out.                                       *)

\* chrome.webNavigation.onBeforeNavigate
OnBeforeNavigate(url, frameId) ==
  /\ (frameId = 0 /\ isUrlBlocked(BlockStore, url).blocked)
       => stats.totalBlocks < MaxBlocks
  /\ IF frameId # 0
     THEN /\ UNCHANGED <<blockedSites, stats, temporaryBreaks>>
          /\ result' = [op |-> "onBeforeNavigate", error |-> <<>>,
                        frameId |-> frameId, redirected |-> FALSE]
     ELSE LET checked == isUrlBlocked(BlockStore, url)
              b == IF checked.blocked
                   THEN incrementBlockCount(checked.store, url)
                   ELSE checked.store
          IN /\ blockedSites' = b.blockedSites
             /\ stats' = b.stats
             /\ temporaryBreaks' = b.temporaryBreaks
             /\ result' = [op |-> "onBeforeNavigate", error |-> <<>>,
                           url |-> url, frameId |-> frameId,
                           redirected |-> checked.blocked]
  /\ UNCHANGED <<now, calls, browser, currentSession, pausedSession, pomodoroState,
                 focusSessions, alarm, nextId, settings, weeklySchedule>>

\* the storage calls of isUrlBlocked (lines 77-83), its unawaited deletion of
\* an expired break (line 102), and the calls of incrementBlockCount
\* (lines 113-116 and 121-124, with updateStats' own read and write)
DecideReads ==
  {"getSettings", "getWeeklySchedule", "getTemporaryBreaks", "getBlockedSites"}
CountReads == {"incrementGetBlockedSites", "incrementGetStats"}
StatsCalls == {"updateStatsGet", "updateStatsSet"}
StorageCalls ==
  DecideReads \cup {"setTemporaryBreaks"} \cup CountReads
    \cup {"setBlockedSites"} \cup StatsCalls

\* the navigation makes the storage call
CallReached(url, call) ==
  LET checked == isUrlBlocked(BlockStore, url)
      readsReached == extractDomain(url) # <<>> /\ ~url.extensionPage
  IN IF call \in DecideReads THEN readsReached
     ELSE IF call = "setTemporaryBreaks"
          THEN readsReached /\ checked.store # BlockStore
     ELSE checked.blocked

\* chrome.webNavigation.onBeforeNavigate for a main-frame navigation during
\* which one storage call rejects.  A rejected awaited call throws into the
\* catch of the listener; the deletion of the expired break is not awaited,
\* so its rejection is handled by nobody and the listener carries on.  The
\* two writes of incrementBlockCount run under one Promise.all: when one
\* rejects the other still completes.
OnBeforeNavigateFailing(url, failing) ==
  /\ CallReached(url, failing)
  /\ LET checked == isUrlBlocked(BlockStore, url)
         counted == incrementBlockCount(checked.store, url)
         thrown == failing # "setTemporaryBreaks"
         b == IF failing \in DecideReads THEN BlockStore
              ELSE IF failing = "setTemporaryBreaks"
                   THEN LET kept == [checked.store EXCEPT
                                       !.temporaryBreaks = temporaryBreaks]
                        IN IF checked.blocked
                           THEN incrementBlockCount(kept, url) ELSE kept
              ELSE IF failing \in CountReads THEN checked.store
              ELSE IF failing = "setBlockedSites"
                   THEN [counted EXCEPT !.blockedSites = checked.store.blockedSites]
              ELSE [counted EXCEPT !.stats = checked.store.stats]
     IN /\ blockedSites' = b.blockedSites
        /\ stats' = b.stats
        /\ temporaryBreaks' = b.temporaryBreaks
        /\ result' = [op |-> "onBeforeNavigate", error |-> <<>>,
                      url |-> url, frameId |-> 0, failed |-> failing,
                      redirected |-> ~thrown /\ checked.blocked,
                      unhandledRejection |-> ~thrown]
  /\ UNCHANGED <<now, calls, browser, currentSession, pausedSession, pomodoroState,
                 focusSessions, alarm, nextId, settings, weeklySchedule>>

\* case "addSite"
AddSite(domain, cap) ==
  /\ nextId <= cap
  /\ Len(blockedSites) < MaxSites
  /\ LET newSite == [id |-> nextId, domain |-> normalizeSite(domain),
                     blockCount |-> 0]
     IN /\ blockedSites' = Append(blockedSites, newSite)
        /\ result' = [op |-> "addSite", error |-> <<>>, site |-> newSite]
  /\ nextId' = nextId + 1
  /\ UNCHANGED <<now, calls, browser, currentSession, pausedSession, pomodoroState,
                 focusSessions, stats, alarm, settings, weeklySchedule,
                 temporaryBreaks>>

\* items.filter((item) => item.id !== id)
filterOutId(items, id) ==
  LET filtered[i \in 0..Len(items)] ==
        IF i = 0 THEN <<>>
        ELSE IF items[i].id # id THEN Append(filtered[i - 1], items[i])
             ELSE filtered[i - 1]
  IN filtered[Len(items)]

\* case "removeSite"
RemoveSite(id) ==
  /\ blockedSites' = filterOutId(blockedSites, id)
  /\ result' = [op |-> "removeSite", error |-> <<>>]
  /\ UNCHANGED <<now, calls, browser, timerVars, settings, weeklySchedule, temporaryBreaks>>

\* case "toggleBlocking"
ToggleBlocking ==
  /\ settings' = Merge(settings, [enabled |-> ~settings.enabled])
  /\ result' = [op |-> "toggleBlocking", error |-> <<>>,
                enabled |-> ~settings.enabled]
  /\ UNCHANGED <<now, calls, browser, timerVars, blockedSites, weeklySchedule, temporaryBreaks>>

\* case "updateWeeklySchedule"
UpdateWeeklySchedule(scheduleUpdate) ==
  /\ weeklySchedule' = Merge(weeklySchedule, scheduleUpdate)
  /\ result' = [op |-> "updateWeeklySchedule", error |-> <<>>]
  /\ UNCHANGED <<now, calls, browser, timerVars, blockedSites, settings, temporaryBreaks>>

\* case "addScheduleSlot"
AddScheduleSlot(slotData, cap, maxSlots) ==
  /\ nextId <= cap
  /\ Len(weeklySchedule.slots) < maxSlots
  /\ LET newSlot == [id |-> nextId, day |-> slotData.day,
                     startTime |-> slotData.startTime,
                     endTime |-> slotData.endTime, enabled |-> TRUE]
     IN weeklySchedule' =
          [weeklySchedule EXCEPT !.slots = Append(@, newSlot)]
  /\ nextId' = nextId + 1
  /\ result' = [op |-> "addScheduleSlot", error |-> <<>>]
  /\ UNCHANGED <<now, calls, browser, currentSession, pausedSession, pomodoroState,
                 focusSessions, stats, alarm, blockedSites, settings,
                 temporaryBreaks>>

\* case "removeScheduleSlot"
RemoveScheduleSlot(slotId) ==
  /\ weeklySchedule' =
       [weeklySchedule EXCEPT !.slots = filterOutId(@, slotId)]
  /\ result' = [op |-> "removeScheduleSlot", error |-> <<>>]
  /\ UNCHANGED <<now, calls, browser, timerVars, blockedSites, settings, temporaryBreaks>>

\* storage.ts toggleScheduleSlot
ToggleScheduleSlot(slotId) ==
  /\ \E i \in 1..Len(weeklySchedule.slots) : weeklySchedule.slots[i].id = slotId
  /\ LET i == CHOOSE k \in 1..Len(weeklySchedule.slots) :
                 /\ weeklySchedule.slots[k].id = slotId
                 /\ \A j \in 1..(k - 1) : weeklySchedule.slots[j].id # slotId
     IN weeklySchedule' =
          [weeklySchedule EXCEPT !.slots[i].enabled = ~@]
  /\ result' = [op |-> "toggleScheduleSlot", error |-> <<>>]
  /\ UNCHANGED <<now, calls, browser, timerVars, blockedSites, settings, temporaryBreaks>>

\* case "isScheduleActive"
IsScheduleActive ==
  /\ result' = [op |-> "isScheduleActive", error |-> <<>>,
                active |-> isWithinSchedule(weeklySchedule),
                scheduleEnabled |-> weeklySchedule.enabled]
  /\ UNCHANGED <<now, calls, browser, timerVars, blockVars>>

\* the break button of the blocked page shown for blockedUrl
BREAK_MS == 300000

TakeBreak(blockedUrl) ==
  /\ blockedUrl.parses
  /\ LET blockedDomain == removeFirst(blockedUrl.hostname, WWW)
         breakUntil == now + BREAK_MS
     IN temporaryBreaks' =
          [d \in DOMAIN temporaryBreaks \cup {blockedDomain} |->
             IF d = blockedDomain THEN breakUntil ELSE temporaryBreaks[d]]
  /\ result' = [op |-> "takeBreak", error |-> <<>>]
  /\ UNCHANGED <<now, calls, browser, timerVars, blockedSites, settings, weeklySchedule>>

----------------------------------------------------------------------------
(* The timer specification: every timer handler, interleaved with the clock *)

Durations == {1, 2}

\* the clock moves in minutes
Deltas == {60000}

PomodoroArgs == {<<2, 1, 2>>}

Next ==
  \/ \E d \in Durations : StartSession(d, MaxSessions)
  \/ \E id \in 1..MaxSessions, completed \in BOOLEAN : EndSession(id, completed)
  \/ PauseSession
  \/ ResumeSession
  \/ \E a \in PomodoroArgs : StartPomodoro(a[1], a[2], a[3], MaxSessions)
  \/ StopPomodoro
  \/ SkipToNext(MaxSessions)
  \/ OnAlarm(MaxSessions)
  \/ OnStartup
  \/ \E d \in Deltas : AdvanceTime(d, MaxMinutes * MsPerMinute)

Spec == Init /\ [][Next]_vars

----------------------------------------------------------------------------
(* The navigation specification: navigations against a blocklist, the       *)
(* enable switch, a weekly schedule and temporary breaks                    *)

FACEBOOK == <<"f", "a", "c", "e", "b", "o", "o", "k", ".", "c", "o", "m">>
EXTENSION_ID == <<"f", "l", "o", "w", "b", "l", "o", "c", "k", "i", "d">>

WebUrl(hostname) ==
  [parses |-> TRUE, hostname |-> hostname, extensionPage |-> FALSE]

\* https://m.facebook.com/x, https://www.facebook.com/
SiteUrls == {WebUrl(<<"m", ".">> \o FACEBOOK), WebUrl(WWW \o FACEBOOK)}

\* about:blank, a string that is no URL, and
\* chrome-extension://flowblockid/blocked.html
Urls ==
  SiteUrls \cup
  {WebUrl(<<>>),
   [parses |-> FALSE, hostname |-> <<>>, extensionPage |-> FALSE],
   [parses |-> TRUE, hostname |-> EXTENSION_ID, extensionPage |-> TRUE]}

\* what the user types into the add-site field
SiteInputs ==
  {FACEBOOK, WILDCARD \o FACEBOOK, HTTPS \o WWW \o <<"F">> \o slice(FACEBOOK, 1),
   EXTENSION_ID}

\* Thursday 00:05-00:10
SlotInputs ==
  {[day |-> 4, startTime |-> <<"0", "0", ":", "0", "5">>,
    endTime |-> <<"0", "0", ":", "1", "0">>]}

\* the clock moves in steps of five minutes
NavDeltas == {300000}

NextNav ==
  \/ \E url \in Urls, frameId \in {0, 1} : OnBeforeNavigate(url, frameId)
  \/ \E domain \in SiteInputs : AddSite(domain, MaxNavIds)
  \/ \E id \in 1..MaxNavIds : RemoveSite(id)
  \/ ToggleBlocking
  \/ \E enabled \in BOOLEAN : UpdateWeeklySchedule([enabled |-> enabled])
  \/ \E slot \in SlotInputs : AddScheduleSlot(slot, MaxNavIds, MaxSlots)
  \/ \E id \in 1..MaxNavIds : RemoveScheduleSlot(id)
  \/ \E url \in SiteUrls : TakeBreak(url)
  \/ \E d \in NavDeltas : AdvanceTime(d, MaxNavMinutes * MsPerMinute)

SpecNav == Init /\ [][NextNav]_vars

----------------------------------------------------------------------------
(* The streak specification: plain sessions over several days *)

\* the clock moves in half days
StreakDeltas == {43200000}

NextStreak ==
  \/ StartSession(1, MaxStreakSessions)
  \/ \E id \in 1..MaxStreakSessions, completed \in BOOLEAN :
        EndSession(id, completed)
  \/ OnAlarm(MaxStreakSessions)
  \/ \E d \in StreakDeltas : AdvanceTime(d, MaxDays * MsPerDay)

SpecStreak == Init /\ [][NextStreak]_vars

----------------------------------------------------------------------------
(* The Pomodoro specification: Pomodoro runs driven by the alarm alone, each  *)
(* started while Pomodoro mode is off                                        *)

CadenceArgs == {<<25, 5, 15>>}

LongBreakEvery == {2, 3, 4}

NextPomodoro ==
  \/ /\ ~pomodoroState.enabled
     /\ \E a \in CadenceArgs :
           StartPomodoro(a[1], a[2], a[3], MaxPomodoroSessions)
  \/ /\ ~pomodoroState.enabled
     /\ \E n \in LongBreakEvery :
           UpdatePomodoroSettings([sessionsUntilLongBreak |-> n])
  \/ StopPomodoro
  \/ OnAlarm(MaxPomodoroSessions)
  \/ AdvanceToAlarm

SpecPomodoro == Init /\ [][NextPomodoro]_vars

----------------------------------------------------------------------------
(* The stats specification: everything that writes the stats record, over    *)
(* several days: sessions ended by command and by the alarm, and denied      *)
(* navigations                                                               *)

\* the clock moves in days
StatsDeltas == {86400000}

NextStats ==
  \/ StartSession(1, MaxStatsIds)
  \/ /\ currentSession # <<>>
     /\ \E completed \in BOOLEAN : EndSession(currentSession[1].id, completed)
  \/ OnAlarm(MaxStatsIds)
  \/ OnStartup
  \/ blockedSites = <<>> /\ AddSite(FACEBOOK, MaxStatsIds)
  \/ OnBeforeNavigate(WebUrl(WWW \o FACEBOOK), 0)
  \/ \E d \in StatsDeltas : AdvanceTime(d, MaxStatsDays * MsPerDay)

SpecStats == Init /\ [][NextStats]_vars

----------------------------------------------------------------------------
(* The elapsed-time specification: 25-minute sessions ended early, on time   *)
(* and late                                                                  *)

\* the clock moves in steps of a minute and a half
ElapsedDeltas == {90000}

NextElapsed ==
  \/ StartSession(25, MaxElapsedSessions)
  \/ \E id \in 1..MaxElapsedSessions, completed \in BOOLEAN :
        EndSession(id, completed)
  \/ OnAlarm(MaxElapsedSessions)
  \/ \E d \in ElapsedDeltas : AdvanceTime(d, MaxElapsedMinutes * MsPerMinute)

SpecElapsed == Init /\ [][NextElapsed]_vars

----------------------------------------------------------------------------
(* The pause specification: one-minute sessions paused and resumed, with a   *)
(* clock that does not move in whole seconds                                 *)

\* the clock moves in steps of 20.5 seconds
PauseDelta == 20500

NextPause ==
  \/ StartSession(1, MaxPauseSessions)
  \/ \E id \in 1..MaxPauseSessions, completed \in BOOLEAN :
        EndSession(id, completed)
  \/ PauseSession
  \/ ResumeSession
  \/ OnAlarm(MaxPauseSessions)
  \/ OnStartup
  \/ AdvanceTime(PauseDelta, MaxPauseSteps * PauseDelta)

SpecPause == Init /\ [][NextPause]_vars

----------------------------------------------------------------------------
(* The restart specification: the browser is closed and launched again while *)
(* a session is current.  The listeners are registered side by side          *)
(* (background/index.ts 134, 163, 212, 414); until onStartup is handled the  *)
(* other events are handled as they arrive.  onStartup is dispatched within  *)
(* the same minute as the launch.                                            *)

NextRestart ==
  \/ /\ browser # "closed"
     /\ \/ StartSession(1, MaxRestartSessions)
        \/ \E id \in 1..MaxRestartSessions, completed \in BOOLEAN :
              EndSession(id, completed)
        \/ PauseSession
        \/ ResumeSession
        \/ OnAlarm(MaxRestartSessions)
  \/ browser = "starting" /\ OnStartup
  \/ CloseBrowser
  \/ LaunchBrowser
  \/ /\ browser # "starting"
     /\ \E d \in Deltas : AdvanceTime(d, MaxRestartMinutes * MsPerMinute)

SpecRestart == Init /\ [][NextRestart]_vars

----------------------------------------------------------------------------
(* The Pomodoro command specification: startPomodoro, stopPomodoro and       *)
(* skipToNext sent in any state, among plain sessions and alarms             *)

CommandArgs == {<<2, 1, 3>>, <<3, 2, 1>>}

NextCommands ==
  \/ StartSession(1, MaxCommandSessions)
  \/ \E completed \in BOOLEAN :
        /\ currentSession # <<>>
        /\ EndSession(currentSession[1].id, completed)
  \/ \E a \in CommandArgs :
        StartPomodoro(a[1], a[2], a[3], MaxCommandSessions)
  \/ UpdatePomodoroSettings([sessionsUntilLongBreak |-> 1])
  \/ StopPomodoro
  \/ SkipToNext(MaxCommandSessions)
  \/ OnAlarm(MaxCommandSessions)
  \/ AdvanceToAlarm

SpecCommands == Init /\ [][NextCommands]_vars

----------------------------------------------------------------------------
(* Properties of the session history and the current-session slot *)

\* the history entries of the session with this id
Entries(sessions, id) == {i \in 1..Len(sessions) : sessions[i].id = id}

\* the history entries that have no endTime
Unterminated(sessions) ==
  {i \in 1..Len(sessions) : sessions[i].endTime = <<>>}

\* the unterminated history entries that are not the current session
Abandoned(sessions, current) ==
  {i \in Unterminated(sessions) :
     current = <<>> \/ current[1].id # sessions[i].id}

StatsOfSessions(st) ==
  <<st.totalFocusTime, st.sessionsCompleted, st.currentStreak, st.longestStreak>>

\* C5 as stated: a step that ends a break session as completed leaves
\* totalFocusTime, sessionsCompleted, currentStreak and longestStreak unchanged
C5_BreakLeavesStats ==
  [][(/\ currentSession # <<>>
      /\ currentSession[1].type = "break"
      /\ \E i \in Entries(focusSessions', currentSession[1].id) :
            /\ focusSessions'[i].endTime # <<>>
            /\ focusSessions'[i].completed)
     => StatsOfSessions(stats') = StatsOfSessions(stats)]_vars

\* C7: an end command for an id that is not the current session's fails with
\* the session-not-found error and changes no persisted record and no alarm;
\* an end for a session that the history records as ended always fails
C7_EndNotFound ==
  [][result'.op = "endSession" =>
       /\ (currentSession = <<>> \/ currentSession[1].id # result'.sessionId)
            => /\ result'.error = <<SessionNotFound>>
               /\ UNCHANGED <<timerVars, blockVars>>
       /\ (\E i \in Entries(focusSessions, result'.sessionId) :
              focusSessions[i].endTime # <<>>)
            => result'.error = <<SessionNotFound>>]_vars

\* C7 witness: a second end of a session that has ended failed
C7_Witness ==
  /\ result.op = "endSession"
  /\ result.error = <<SessionNotFound>>
  /\ \E i \in Entries(focusSessions, result.sessionId) :
        focusSessions[i].endTime # <<>>

\* C8: right after a successful end the entry with that id has endTime = now
\* and the given completed flag, the slot, the paused record and the alarm are
\* empty and the remaining time is 0
C8_AfterEnd ==
  (result.op = "endSession" /\ result.error = <<>>) =>
     /\ Entries(focusSessions, result.sessionId) # {}
     /\ \A i \in Entries(focusSessions, result.sessionId) :
           /\ focusSessions[i].endTime = <<now>>
           /\ focusSessions[i].completed = result.completed
     /\ currentSession = <<>>
     /\ pausedSession = <<>>
     /\ alarm = <<>>
     /\ getTimeRemaining(Store) = 0

\* C8 witness: a session was ended as completed before its duration was over
C8_Witness ==
  /\ result.op = "endSession"
  /\ result.error = <<>>
  /\ result.completed
  /\ \E i \in Entries(focusSessions, result.sessionId) :
        now < focusSessions[i].startTime
                + focusSessions[i].duration * MsPerMinute

----------------------------------------------------------------------------
(* Properties of the streak *)

\* the session was started and ended as completed on this calendar day
CompletedOn(session, day) ==
  /\ session.type = "focus"
  /\ session.completed
  /\ session.endTime # <<>>
  /\ toDateString(session.startTime) = day
  /\ toDateString(session.endTime[1]) = day

\* C6 as stated: with focus sessions started and completed on day D and on day
\* D+1 the streak is 2; with a third on day D+3 it is 1 and the longest is 2
C6_StreakOverConsecutiveDays ==
  /\ (/\ Len(focusSessions) = 2
      /\ \E day \in 0..MaxDays :
            /\ CompletedOn(focusSessions[1], day)
            /\ CompletedOn(focusSessions[2], day + 1))
       => stats.currentStreak = 2
  /\ (/\ Len(focusSessions) = 3
      /\ \E day \in 0..MaxDays :
            /\ CompletedOn(focusSessions[1], day)
            /\ CompletedOn(focusSessions[2], day + 1)
            /\ CompletedOn(focusSessions[3], day + 3))
       => (stats.currentStreak = 1 /\ stats.longestStreak = 2)

----------------------------------------------------------------------------
(* Properties of the Pomodoro cycle *)

\* C10: in a Pomodoro run driven by the alarm, a focus session that elapses is
\* followed by a break and a break by a focus session of workDuration; the
\* focus completion adds 1 to totalCyclesCompleted and to currentCycle and sets
\* isOnBreak, and its break has longBreakDuration exactly when the new
\* totalCyclesCompleted is a multiple of sessionsUntilLongBreak
C10_PomodoroCadence ==
  [][(/\ result'.op = "onAlarm"
      /\ pomodoroState.enabled
      /\ currentSession # <<>>)
     => /\ currentSession' # <<>>
        /\ currentSession'[1].startTime = now
        /\ alarm' = <<[when |-> now + currentSession'[1].duration * MsPerMinute]>>
        /\ IF currentSession[1].type = "focus"
           THEN /\ currentSession'[1].type = "break"
                /\ pomodoroState' =
                     [pomodoroState EXCEPT
                        !.isOnBreak = TRUE,
                        !.currentCycle = @ + 1,
                        !.totalCyclesCompleted = @ + 1]
                /\ currentSession'[1].duration =
                     IF pomodoroState'.totalCyclesCompleted
                          % pomodoroState.sessionsUntilLongBreak = 0
                     THEN pomodoroState.longBreakDuration
                     ELSE pomodoroState.breakDuration
           ELSE /\ currentSession'[1].type = "focus"
                /\ currentSession'[1].duration = pomodoroState.workDuration
                /\ pomodoroState' = [pomodoroState EXCEPT !.isOnBreak = FALSE]
    ]_vars

\* C10 witness: with 25, 5, 15 and a long break every 4, the 4th focus
\* completion has started a break of 15 minutes
C10_Witness ==
  /\ result.op = "onAlarm"
  /\ pomodoroState.enabled
  /\ pomodoroState.sessionsUntilLongBreak = 4
  /\ pomodoroState.workDuration = 25
  /\ pomodoroState.breakDuration = 5
  /\ pomodoroState.totalCyclesCompleted = 4
  /\ pomodoroState.currentCycle = 5
  /\ pomodoroState.isOnBreak
  /\ currentSession # <<>>
  /\ currentSession[1].type = "break"
  /\ currentSession[1].duration = 15

----------------------------------------------------------------------------
(* Properties of the blocking decision *)

\* an unexpired temporary break exists for the domain
UnexpiredBreak(domain) ==
  /\ domain \in DOMAIN temporaryBreaks
  /\ now < temporaryBreaks[domain]

\* the five conditions of the decision, on the state before the navigation
DenyConditions(url) ==
  /\ url.parses
  /\ extractDomain(url) # <<>>
  /\ settings.enabled
  /\ isWithinSchedule(weeklySchedule)
  /\ ~UnexpiredBreak(extractDomain(url))
  /\ \E i \in 1..Len(blockedSites) :
        domainMatchesPattern(extractDomain(url), blockedSites[i].domain)

\* a main-frame navigation is being decided in this step
Navigation == result'.op = "onBeforeNavigate" /\ result'.frameId = 0

\* C2 as stated: a navigation is denied exactly when the URL has a domain,
\* blocking is enabled, the schedule is active, no unexpired break exists for
\* the domain and a blocklist entry matches it
C2_DenyExactlyWhen ==
  [][Navigation => (result'.redirected <=> DenyConditions(result'.url))]_vars

\* C2 amended: ... and the URL is not a page of the extension itself
C2_DenyExactlyWhenNotOwnPage ==
  [][Navigation =>
       (result'.redirected <=>
          (DenyConditions(result'.url) /\ ~result'.url.extensionPage))]_vars

\* C2 witness: a navigation was denied, and one to an own page was allowed
\* although the blocklist matches it
C2_Witness ==
  /\ result.op = "onBeforeNavigate"
  /\ result.frameId = 0
  /\ ~result.redirected
  /\ result.url.extensionPage
  /\ DenyConditions(result.url)
  /\ stats.totalBlocks = 1

\* C3: a denied navigation adds 1 to the blockCount of the first entry that
\* matches, in list order, and to totalBlocks, and changes no other entry; an
\* allowed navigation changes no blockCount and not the stats
C3_FirstMatchCounts ==
  [][Navigation =>
       IF result'.redirected
       THEN LET matching == Matching(blockedSites, result'.url)
            IN /\ matching # {}
               /\ Len(blockedSites') = Len(blockedSites)
               /\ \A i \in 1..Len(blockedSites) :
                     blockedSites'[i] =
                       IF i \in matching /\ \A j \in matching : i <= j
                       THEN [blockedSites[i] EXCEPT !.blockCount = @ + 1]
                       ELSE blockedSites[i]
               /\ stats' = [stats EXCEPT !.totalBlocks = @ + 1]
       ELSE blockedSites' = blockedSites /\ stats' = stats]_vars

\* C3 witness: two entries match the denied URL; the first one counted it
C3_Witness ==
  /\ result.op = "onBeforeNavigate"
  /\ result.frameId = 0
  /\ result.redirected
  /\ Matching(blockedSites, result.url) = {1, 2}
  /\ blockedSites[1].blockCount = 1
  /\ blockedSites[2].blockCount = 0
  /\ stats.totalBlocks = 1

\* C4: while a break for the domain d of a blocklist entry is unexpired, a
\* navigation that this entry matches (a URL on d or on a subdomain of d) is
\* allowed and no counter changes
C4_BreakExemptsEntry ==
  [][Navigation =>
       \A i \in Matching(blockedSites, result'.url) :
          UnexpiredBreak(blockedSites[i].domain)
            => /\ ~result'.redirected
               /\ blockedSites' = blockedSites
               /\ stats' = stats]_vars
----------------------------------------------------------------------------
(* Properties of the Pomodoro state *)

\* C11: isOnBreak is true only while a session is current and its type is break
C11_OnBreakOnlyDuringBreak ==
  pomodoroState.isOnBreak =>
     (currentSession # <<>> /\ currentSession[1].type = "break")
----------------------------------------------------------------------------
(* Properties of the stats *)

CompletesFocus(session) ==
  /\ session.type = "focus"
  /\ \E i \in Entries(focusSessions', session.id) :
        /\ focusSessions'[i].endTime = <<now>>
        /\ focusSessions'[i].completed
  /\ \A i \in Entries(focusSessions, session.id) :
        focusSessions[i].endTime = <<>>

\* C13: a step that ends the current focus session as completed adds 1 to
\* sessionsCompleted and adds to totalFocusTime the whole number of minutes
\* nearest to the time from the session's start to its end (a half rounds up)
C13_ActualMinutesCounted ==
  [][(currentSession # <<>> /\ CompletesFocus(currentSession[1])) =>
       LET elapsed == now - currentSession[1].startTime
           added == stats'.totalFocusTime - stats.totalFocusTime
       IN /\ stats'.sessionsCompleted = stats.sessionsCompleted + 1
          /\ added * MsPerMinute - elapsed <= MsPerMinute \div 2
          /\ elapsed - added * MsPerMinute < MsPerMinute \div 2]_vars

\* C13 witness: a session of 25 minutes ended as completed after 24 minutes
\* added 24 minutes
C13_Witness ==
  /\ result.op = "endSession"
  /\ result.error = <<>>
  /\ result.completed
  /\ stats.sessionsCompleted = 1
  /\ stats.totalFocusTime = 24
  /\ \E i \in Entries(focusSessions, result.sessionId) :
        /\ focusSessions[i].duration = 25
        /\ focusSessions[i].endTime[1] - focusSessions[i].startTime
             = 24 * MsPerMinute
----------------------------------------------------------------------------
(* Properties of the remaining time, pause and resume *)

\* the milliseconds from now to the end of the session by its record
RemainingMs(session) ==
  session.duration * 60 * MsPerSecond - (now - session.startTime)

\* C14: the remaining time is 0 without a current session, the value stored
\* in the paused record while one exists, however long ago it was stored, and
\* else the seconds left to startTime + duration, rounded to the nearest
\* second and not below 0; it is never negative and never above duration * 60
C14_Remaining ==
  /\ [](LET remaining == getTimeRemaining(Store)
        IN /\ remaining >= 0
           /\ currentSession = <<>> => remaining = 0
           /\ currentSession # <<>> =>
                /\ remaining <= currentSession[1].duration * 60
                /\ pausedSession # <<>> =>
                     remaining = pausedSession[1].remainingSeconds
                /\ pausedSession = <<>> =>
                     LET ms == RemainingMs(currentSession[1])
                     IN IF 2 * ms < MsPerSecond THEN remaining = 0
                        ELSE /\ 2 * (remaining * MsPerSecond - ms) <= MsPerSecond
                             /\ 2 * (ms - remaining * MsPerSecond) < MsPerSecond)
  /\ [][(/\ currentSession # <<>> /\ pausedSession # <<>>
         /\ result'.op = "advanceTime")
        => getTimeRemaining(Store)' = getTimeRemaining(Store)]_vars

\* C14 witness: 41 seconds after a pause at 20.5 seconds into a one-minute
\* session the remaining time is still the 40 seconds stored by the pause
C14_Witness ==
  /\ currentSession # <<>>
  /\ pausedSession # <<>>
  /\ pausedSession[1].remainingSeconds = 40
  /\ now - pausedSession[1].pausedAt = 2 * PauseDelta
  /\ getTimeRemaining(Store) = 40

\* C15: a pause without a current session fails with the no-active-session
\* error and one with no time remaining fails with the already-ended error,
\* both changing nothing; any other pause clears the alarm and stores the
\* remaining time of that moment, leaving the current session as it is
C15_Pause ==
  [][result'.op = "pauseSession" =>
       IF currentSession = <<>>
       THEN /\ result'.error = <<NoActiveSession>>
            /\ UNCHANGED <<timerVars, blockVars>>
       ELSE IF getTimeRemaining(Store) <= 0
       THEN /\ result'.error = <<SessionAlreadyEnded>>
            /\ UNCHANGED <<timerVars, blockVars>>
       ELSE /\ result'.error = <<>>
            /\ alarm' = <<>>
            /\ pausedSession' =
                 <<[pausedAt |-> now,
                    remainingSeconds |-> getTimeRemaining(Store)]>>
            /\ UNCHANGED <<currentSession, focusSessions, stats,
                           pomodoroState, blockVars>>]_vars

\* C15 witness: a pause of a session whose time is over failed and left the
\* session and its alarm in place
C15_Witness ==
  /\ result.op = "pauseSession"
  /\ result.error = <<SessionAlreadyEnded>>
  /\ currentSession # <<>>
  /\ pausedSession = <<>>
  /\ alarm # <<>>
  /\ now >= alarm[1].when

\* C16: a resume without a paused record fails and changes nothing (with the
\* not-paused error when a session is current); any other resume removes the
\* paused record, after it the remaining time is the value the pause froze,
\* and the new alarm is due at the shifted startTime + duration
C16_Resume ==
  [][result'.op = "resumeSession" =>
       IF pausedSession = <<>>
       THEN /\ result'.error # <<>>
            /\ currentSession # <<>> => result'.error = <<NotPaused>>
            /\ UNCHANGED <<timerVars, blockVars>>
       ELSE /\ result'.error = <<>>
            /\ pausedSession' = <<>>
            /\ getTimeRemaining(Store)' = pausedSession[1].remainingSeconds
            /\ Len(alarm') = 1
            /\ alarm'[1].when =
                 currentSession'[1].startTime
                   + currentSession'[1].duration * MsPerMinute]_vars
----------------------------------------------------------------------------
(* Properties of the recovery on restart *)

\* a session is current whose startTime + duration is not in the future
StaleSession ==
  /\ currentSession # <<>>
  /\ now >= currentSession[1].startTime
              + currentSession[1].duration * MsPerMinute

\* C17: when the browser starts with a stale current session, the first
\* listener that runs ends that session as completed and takes it out of the
\* current-session slot: no command or event finds it there and does
\* something else
C17_RecoveryBeforeAnythingElse ==
  [][(/\ browser = "starting"
      /\ StaleSession
      /\ result'.op \notin {"advanceTime", "closeBrowser"})
     => /\ currentSession' = <<>> \/ currentSession'[1].id # currentSession[1].id
        /\ \A i \in Entries(focusSessions', currentSession[1].id) :
              /\ focusSessions'[i].endTime # <<>>
              /\ focusSessions'[i].completed]_vars
----------------------------------------------------------------------------
(* Properties of the Pomodoro commands *)

\* C18: startPomodoro(work, brk, long) leaves Pomodoro enabled with these
\* durations, currentCycle 1, isOnBreak false and totalCyclesCompleted 0, and
\* a new focus session of duration work as the current session
C18_StartPomodoroResets ==
  [][result'.op = "startPomodoro" =>
       LET work == result'.payload[1]
           brk == result'.payload[2]
           long == result'.payload[3]
       IN /\ result'.error = <<>>
          /\ pomodoroState'.enabled
          /\ pomodoroState'.workDuration = work
          /\ pomodoroState'.breakDuration = brk
          /\ pomodoroState'.longBreakDuration = long
          /\ pomodoroState'.currentCycle = 1
          /\ ~pomodoroState'.isOnBreak
          /\ pomodoroState'.totalCyclesCompleted = 0
          /\ currentSession' =
               <<[id |-> nextId, startTime |-> now, endTime |-> <<>>,
                  duration |-> work, completed |-> FALSE, type |-> "focus"]>>
          /\ Entries(focusSessions, nextId) = {}
          /\ Cardinality(Entries(focusSessions', nextId)) = 1]_vars

\* C18 witness: startPomodoro(3, 2, 1) was sent in the middle of a break of a
\* run started with other durations
C18_Witness ==
  /\ result.op = "startPomodoro"
  /\ result.payload = <<3, 2, 1>>
  /\ pomodoroState.workDuration = 3
  /\ pomodoroState.currentCycle = 1
  /\ ~pomodoroState.isOnBreak
  /\ currentSession # <<>>
  /\ currentSession[1].duration = 3
  /\ \E i \in 1..Len(focusSessions) :
        /\ focusSessions[i].type = "break"
        /\ focusSessions[i].duration = 1
        /\ focusSessions[i].endTime = <<>>

\* C19: after stopPomodoro Pomodoro is disabled, no session is current, no
\* alarm is pending, the stats are what they were, and the session that was
\* current is in the history with endTime = now and completed = false
C19_StopPomodoro ==
  [][result'.op = "stopPomodoro" =>
       /\ result'.error = <<>>
       /\ ~pomodoroState'.enabled
       /\ currentSession' = <<>>
       /\ pausedSession' = <<>>
       /\ alarm' = <<>>
       /\ stats' = stats
       /\ currentSession # <<>> =>
            /\ Entries(focusSessions', currentSession[1].id) # {}
            /\ \A i \in Entries(focusSessions', currentSession[1].id) :
                  /\ focusSessions'[i].endTime = <<now>>
                  /\ ~focusSessions'[i].completed]_vars

\* C19 witness: a Pomodoro run was stopped during a break that followed a
\* completed focus session
C19_Witness ==
  /\ result.op = "stopPomodoro"
  /\ ~pomodoroState.enabled
  /\ stats.sessionsCompleted = 1
  /\ \E i \in 1..Len(focusSessions) :
        /\ focusSessions[i].type = "break"
        /\ focusSessions[i].endTime = <<now>>
        /\ ~focusSessions[i].completed

\* C20: a skip with Pomodoro enabled and a session current records that
\* session as ended and not completed, leaves the stats alone and starts the
\* session the elapsed transition starts from the same Pomodoro state, with
\* the same new Pomodoro state; any other skip fails and changes nothing
C20_SkipLikeElapsed ==
  [][result'.op = "skipToNext" =>
       IF currentSession # <<>> /\ pomodoroState.enabled
       THEN LET p == pomodoroState
                elapsed == handlePomodoroSessionEnd(
                             endFocusSession(Store, currentSession[1].id, TRUE))
                long == (p.totalCyclesCompleted + 1) % p.sessionsUntilLongBreak = 0
            IN /\ result'.error = <<>>
               /\ Entries(focusSessions', currentSession[1].id) # {}
               /\ \A i \in Entries(focusSessions', currentSession[1].id) :
                     /\ focusSessions'[i].endTime = <<now>>
                     /\ ~focusSessions'[i].completed
               /\ stats' = stats
               /\ currentSession' # <<>>
               /\ currentSession'[1].type = elapsed.currentSession[1].type
               /\ currentSession'[1].duration = elapsed.currentSession[1].duration
               /\ pomodoroState' = elapsed.pomodoroState
               /\ currentSession'[1].type = IF p.isOnBreak THEN "focus" ELSE "break"
               /\ currentSession'[1].duration =
                    IF p.isOnBreak THEN p.workDuration
                    ELSE IF long THEN p.longBreakDuration ELSE p.breakDuration
               /\ alarm' = <<[when |-> now + currentSession'[1].duration
                                               * MsPerMinute]>>
       ELSE /\ result'.error # <<>>
            /\ UNCHANGED <<timerVars, blockVars>>]_vars

\* C20 witness: a skip of a focus session started the long break
C20_Witness ==
  /\ result.op = "skipToNext"
  /\ result.error = <<>>
  /\ pomodoroState.isOnBreak
  /\ pomodoroState.sessionsUntilLongBreak = 1
  /\ currentSession # <<>>
  /\ currentSession[1].type = "break"
  /\ currentSession[1].duration = pomodoroState.longBreakDuration
  /\ pomodoroState.longBreakDuration # pomodoroState.breakDuration
  /\ stats.sessionsCompleted = 0
----------------------------------------------------------------------------
(* The schedule specification: slots are added, removed and toggled, the    *)
(* schedule is switched on and off, and the evaluator is asked at minutes,  *)
(* hours and days apart                                                     *)

MaxScheduleSlots == 2
MaxScheduleIds == 2
MaxScheduleMinutes == 3
MaxScheduleHours == 1
MaxScheduleDays == 1

\* Thursday 00:01-00:02, Thursday 00:02-01:01 and Friday 00:00-00:01
ScheduleSlotInputs ==
  {[day |-> 4, startTime |-> <<"0", "0", ":", "0", "1">>,
    endTime |-> <<"0", "0", ":", "0", "2">>],
   [day |-> 4, startTime |-> <<"0", "0", ":", "0", "2">>,
    endTime |-> <<"0", "1", ":", "0", "1">>],
   [day |-> 5, startTime |-> <<"0", "0", ":", "0", "0">>,
    endTime |-> <<"0", "0", ":", "0", "1">>]}

NextSchedule ==
  \/ IsScheduleActive
  \/ \E enabled \in BOOLEAN : UpdateWeeklySchedule([enabled |-> enabled])
  \/ \E slot \in ScheduleSlotInputs :
       AddScheduleSlot(slot, MaxScheduleIds, MaxScheduleSlots)
  \/ \E id \in 1..MaxScheduleIds : RemoveScheduleSlot(id)
  \/ \E id \in 1..MaxScheduleIds : ToggleScheduleSlot(id)
  \/ getMinutes(now) < MaxScheduleMinutes
       /\ AdvanceTime(MsPerMinute, (MaxScheduleDays + 1) * MsPerDay)
  \/ getHours(now) < MaxScheduleHours
       /\ AdvanceTime(60 * MsPerMinute, (MaxScheduleDays + 1) * MsPerDay)
  \/ now < MaxScheduleDays * MsPerDay
       /\ AdvanceTime(MsPerDay, (MaxScheduleDays + 1) * MsPerDay)

SpecSchedule == Init /\ [][NextSchedule]_vars

\* "HH:MM" as minutes since midnight
MinutesOfClock(str) ==
  ((charCode(str[1]) - 1) * 10 + (charCode(str[2]) - 1)) * 60
    + (charCode(str[4]) - 1) * 10 + (charCode(str[5]) - 1)

\* the minute of the day the clock shows
MinuteOfDay == (now % MsPerDay) \div MsPerMinute

\* C21: the schedule evaluator answers true whenever the schedule is
\* switched off or has no slots; otherwise it answers true exactly when
\* some enabled slot is on the current weekday and its start and end times,
\* both inclusive, enclose the current HH:MM, and false otherwise.
C21_ScheduleEvaluator ==
  result.op = "isScheduleActive" =>
    result.active =
      (\/ ~weeklySchedule.enabled
       \/ weeklySchedule.slots = <<>>
       \/ \E i \in 1..Len(weeklySchedule.slots) :
            LET slot == weeklySchedule.slots[i]
            IN /\ slot.enabled
               /\ slot.day = getDay(now)
               /\ MinutesOfClock(slot.startTime) <= MinuteOfDay
               /\ MinuteOfDay <= MinutesOfClock(slot.endTime))

\* the evaluator was asked on the end minute of the enabled second slot
\* while the first slot is disabled, and answered true
C21_Witness ==
  /\ result.op = "isScheduleActive"
  /\ weeklySchedule.enabled
  /\ Len(weeklySchedule.slots) = 2
  /\ ~weeklySchedule.slots[1].enabled
  /\ weeklySchedule.slots[2].enabled
  /\ MinutesOfClock(weeklySchedule.slots[2].endTime) = MinuteOfDay
  /\ weeklySchedule.slots[2].day = getDay(now)
  /\ result.active
----------------------------------------------------------------------------
(* The matching specification: domainMatchesPattern applied to the domain   *)
(* of a navigated host name and a blocklist pattern                         *)

XCOM == <<"x", ".", "c", "o", "m">>
EVILCOM == <<"e", "v", "i", "l", ".", "c", "o", "m">>

\* host names of navigated URLs
MatchHostnames ==
  {XCOM, WWW \o XCOM, <<"X", ".", "C", "O", "M">>, <<"a", ".">> \o XCOM,
   <<"a", ".", "b", ".">> \o XCOM, <<"n", "o", "t">> \o XCOM,
   WWW \o <<"n", "o", "t">> \o XCOM, XCOM \o DOT \o EVILCOM, EVILCOM,
   <<"c", "o", "m">>, <<"x">> \o XCOM}

\* domain fields of blocklist entries
MatchPatterns ==
  {XCOM, WWW \o XCOM, WILDCARD \o XCOM, <<"X", ".", "C", "o", "m">>,
   WWW \o WILDCARD \o XCOM, WILDCARD \o WWW \o XCOM, EVILCOM,
   <<"c", "o", "m">>, WILDCARD \o <<"c", "o", "m">>, <<>>}

\* blockedSites.some((site) => domainMatchesPattern(domain, site.domain))
\* for one entry
MatchDomain(hostname, pattern) ==
  /\ result' = [op |-> "domainMatchesPattern", error |-> <<>>,
                hostname |-> hostname, pattern |-> pattern,
                domain |-> extractDomain(WebUrl(hostname)),
                matches |-> domainMatchesPattern(
                              extractDomain(WebUrl(hostname)), pattern)]
  /\ UNCHANGED <<now, calls, browser, timerVars, blockVars>>

NextMatch ==
  \E hostname \in MatchHostnames, pattern \in MatchPatterns :
     MatchDomain(hostname, pattern)

SpecMatch == Init /\ [][NextMatch]_vars

\* the base of a pattern: lower-cased, a leading www. dropped, then a
\* leading *. dropped
PatternBase(p) ==
  LET lowered == toLowerCase(p)
      noWww == IF Len(lowered) >= 4 /\ SubSeq(lowered, 1, 4) = WWW
               THEN SubSeq(lowered, 5, Len(lowered)) ELSE lowered
  IN IF Len(noWww) >= 2 /\ SubSeq(noWww, 1, 2) = WILDCARD
     THEN SubSeq(noWww, 3, Len(noWww)) ELSE noWww

\* C22: a normalized domain d matches a pattern with base b exactly when d
\* equals b or d is some label prefix, a dot, and then b; x.com.evil.com and
\* notx.com do not match x.com.
C22_DomainMatching ==
  result.op = "domainMatchesPattern" =>
    LET d == result.domain
        b == PatternBase(result.pattern)
    IN /\ result.matches =
            (\/ d = b
             \/ \E k \in 1..Len(d) :
                  d[k] = "." /\ SubSeq(d, k + 1, Len(d)) = b)
       /\ (d \in {XCOM \o DOT \o EVILCOM, <<"n", "o", "t">> \o XCOM}
             /\ b = XCOM) => ~result.matches

\* m-style subdomain a.b.x.com matched against the wildcard pattern
\* www.*.x.com, whose base is x.com
C22_Witness ==
  /\ result.op = "domainMatchesPattern"
  /\ result.pattern = WWW \o WILDCARD \o XCOM
  /\ result.domain = <<"a", ".", "b", ".">> \o XCOM
  /\ result.matches
----------------------------------------------------------------------------
(* Repeated decisions *)

\* C23: deciding the same URL again at the same time, on the records the
\* first decision left behind, gives the verdict of the first decision.
C23_SameVerdictTwice ==
  (result.op = "onBeforeNavigate" /\ result.frameId = 0) =>
     isUrlBlocked(BlockStore, result.url).blocked = result.redirected

\* a navigation was denied after a break had run out, its block was counted,
\* and the same URL would be denied again
C23_Witness ==
  /\ result.op = "onBeforeNavigate"
  /\ result.frameId = 0
  /\ result.redirected
  /\ now >= BREAK_MS
  /\ temporaryBreaks # <<>>
  /\ extractDomain(result.url) \notin DOMAIN temporaryBreaks
  /\ stats.totalBlocks = 1
  /\ isUrlBlocked(BlockStore, result.url).blocked
----------------------------------------------------------------------------
(* The command-surface specification: plain sessions, and messages whose    *)
(* type handleMessage has no case for                                       *)

MaxSurfaceSessions == 2
MaxSurfaceMinutes == 2

\* names a user interface may send for pausing and resuming
PauseCommands == {"pauseSession", "pause"}
ResumeCommands == {"resumeSession", "resume"}

SurfaceTypes == PauseCommands \cup ResumeCommands \cup {"getStats"}

NextSurface ==
  \/ \E d \in Durations : StartSession(d, MaxSurfaceSessions)
  \/ \E id \in 1..MaxSurfaceSessions, completed \in BOOLEAN :
       EndSession(id, completed)
  \/ OnAlarm(MaxSurfaceSessions)
  \/ \E type \in SurfaceTypes : OnMessage(type)
  \/ \E d \in Deltas : AdvanceTime(d, MaxSurfaceMinutes * MsPerMinute)

SpecSurface == Init /\ [][NextSurface]_vars

\* C24: a command whose operation name is not recognised fails with an
\* error that names the operation, and changes no persisted record and not
\* the pending wake-up.
C24_UnknownOperation ==
  [][result'.op = "onMessage" =>
       /\ result'.type \notin MessageTypes
       /\ Len(result'.error) = 1
       /\ result'.error[1][Len(result'.error[1])] = result'.type
       /\ UNCHANGED <<currentSession, pausedSession, pomodoroState,
                      focusSessions, stats, alarm, blockedSites, settings,
                      weeklySchedule, temporaryBreaks>>]_vars

\* an unknown command was answered while a session was running and its
\* wake-up pending
C24_Witness ==
  /\ result.op = "onMessage"
  /\ result.type = "getStats"
  /\ result.error = <<UnknownMessageType("getStats")>>
  /\ currentSession # <<>>
  /\ alarm # <<>>

\* C25: a pause command sent while a session is running pauses it, a
\* resume command sent while it is paused makes it run again, and neither
\* is answered as an unknown operation.
C25_PauseResumeCommands ==
  [][/\ (/\ result'.op = "onMessage"
          /\ result'.type \in PauseCommands
          /\ currentSession # <<>>
          /\ pausedSession = <<>>
          /\ getTimeRemaining(Store) > 0)
         => (result'.error = <<>> /\ pausedSession' # <<>>)
     /\ (/\ result'.op = "onMessage"
          /\ result'.type \in ResumeCommands
          /\ currentSession # <<>>
          /\ pausedSession # <<>>)
         => (result'.error = <<>> /\ pausedSession' = <<>>)]_vars
----------------------------------------------------------------------------
(* The storage-failure specification: navigations to a blocked site during  *)
(* which one storage call rejects, with breaks that run out                 *)

MaxFailIds == 1
MaxFailBlocks == 2
MaxFailMinutes == 10

NextNavFail ==
  \/ \E url \in SiteUrls : OnBeforeNavigate(url, 0)
  \/ \E url \in SiteUrls, failing \in StorageCalls :
       /\ stats.totalBlocks < MaxFailBlocks
       /\ \A i \in 1..Len(blockedSites) :
             blockedSites[i].blockCount < MaxFailBlocks
       /\ OnBeforeNavigateFailing(url, failing)
  \/ AddSite(FACEBOOK, MaxFailIds)
  \/ ToggleBlocking
  \/ \E url \in SiteUrls : TakeBreak(url)
  \/ \E d \in NavDeltas : AdvanceTime(d, MaxFailMinutes * MsPerMinute)

SpecNavFail == Init /\ [][NextNavFail]_vars

\* a storage call rejected during the navigation of this step
FailedNavigation ==
  result'.op = "onBeforeNavigate" /\ "failed" \in DOMAIN result'

\* C26: when a storage read or write fails while a navigation is decided or
\* its block recorded, the tab is not redirected and the failure stays
\* inside the navigation handler.
C26_FailureAllows ==
  [][FailedNavigation =>
       (~result'.redirected /\ ~result'.unhandledRejection)]_vars
----------------------------------------------------------------------------
(* The mixed-run specification: a Pomodoro run in which plain sessions are  *)
(* started as well                                                          *)

MaxMixedSessions == 4

MixedArgs == {<<2, 1, 3>>}

NextMixed ==
  \/ /\ ~pomodoroState.enabled
     /\ \E a \in MixedArgs : StartPomodoro(a[1], a[2], a[3], MaxMixedSessions)
  \/ StartSession(1, MaxMixedSessions)
  \/ SkipToNext(MaxMixedSessions)
  \/ OnAlarm(MaxMixedSessions)
  \/ AdvanceToAlarm

SpecMixed == Init /\ [][NextMixed]_vars

----------------------------------------------------------------------------
(* The type of the session that follows in a Pomodoro run *)

\* the alarm or a skip ends the current session of a Pomodoro run in this step
PomodoroSessionEnds ==
  /\ result'.op \in {"onAlarm", "skipToNext"}
  /\ result'.transition # <<>>

\* C27: with Pomodoro enabled, an ended break is followed by a focus session
\* of workDuration with isOnBreak false and the cycle counters unchanged, and
\* an ended focus session, however it was started, is followed by a break.
C27_NextTypeFromEndedType ==
  [][PomodoroSessionEnds =>
       /\ currentSession' # <<>>
       /\ IF currentSession[1].type = "break"
          THEN /\ currentSession'[1].type = "focus"
               /\ currentSession'[1].duration = pomodoroState.workDuration
               /\ ~pomodoroState'.isOnBreak
               /\ pomodoroState'.currentCycle = pomodoroState.currentCycle
               /\ pomodoroState'.totalCyclesCompleted =
                    pomodoroState.totalCyclesCompleted
          ELSE currentSession'[1].type = "break"]_vars
----------------------------------------------------------------------------
(* Starting a session *)

SessionTypes == {"focus", "break"}

\* the records s are what start(d, type) at this moment has to leave behind
Started(s, d, type) ==
  /\ s.error = <<>>
  /\ s.pausedSession = <<>>
  /\ Len(s.currentSession) = 1
  /\ LET session == s.currentSession[1]
     IN /\ session.startTime = now
        /\ session.duration = d
        /\ session.type = type
        /\ ~session.completed
        /\ session.endTime = <<>>
        /\ s.focusSessions = Append(focusSessions, session)
  /\ s.alarm = <<[when |-> now + d * MsPerMinute]>>
  /\ s.stats = stats
  /\ s.pomodoroState = pomodoroState

\* C28: start(durationMinutes, type) succeeds in every state: no paused
\* record is left, the new session is current with startTime = now, the given
\* duration and type, not completed and without endTime, it is appended to
\* the history, the one pending wake-up is due at now + durationMinutes, and
\* the stats and the Pomodoro state are as before.
C28_StartAlwaysSucceeds ==
  /\ [](\A d \in Durations, type \in SessionTypes :
          Started(startFocusSession(Store, d, type), d, type))
  /\ [][result'.op = "startSession" =>
          /\ result'.error = <<>>
          /\ currentSession' = <<result'.session>>
          /\ Started(Store', result'.session.duration, "focus")]_vars

\* a start command replaced a running session: the history holds the
\* replaced session, never ended, and the new one
C28_Witness ==
  /\ result.op = "startSession"
  /\ Len(focusSessions) = 2
  /\ focusSessions[1].endTime = <<>>
  /\ currentSession = <<focusSessions[2]>>
  /\ now > focusSessions[1].startTime
  /\ alarm = <<[when |-> now + currentSession[1].duration * MsPerMinute]>>
----------------------------------------------------------------------------
(* Handlers as the steps between their awaits.  A call in flight is a       *)
(* record of its position and its local variables; the effect of a chrome   *)
(* API call happens when the call is made, and the continuation after the   *)
(* await is a later step, so the steps of two calls interleave.             *)

\* the two calls that run concurrently
CallIds == {1, 2}

\* call c is in flight at position pc
At(c, pc) == c \in DOMAIN calls /\ calls[c].pc = pc

SetCall(c, call) ==
  [k \in DOMAIN calls \cup {c} |-> IF k = c THEN call ELSE calls[k]]

\* an intermediate step answers nothing
Awaiting == [op |-> "await", error |-> <<>>]

\* case "startSession": startFocusSession(duration) is called
BeginStart(c, duration) ==
  /\ c \notin DOMAIN calls
  /\ calls' = SetCall(c, [fn |-> "startFocusSession",
                          pc |-> "getCurrentSession", duration |-> duration,
                          session |-> <<>>, sessions |-> <<>>])
  /\ result' = Awaiting
  /\ UNCHANGED <<now, browser, timerVars, blockVars>>

\* timer.ts line 124: const existingSession = await getCurrentSession()
StartGetCurrentSession(c) ==
  /\ At(c, "getCurrentSession")
  /\ calls' = SetCall(c, [calls[c] EXCEPT
                            !.pc = IF currentSession # <<>> THEN "remove"
                                   ELSE "create"])
  /\ result' = Awaiting
  /\ UNCHANGED <<now, browser, timerVars, blockVars>>

\* line 127: chrome.storage.local.remove([CURRENT_SESSION_KEY, PAUSED_SESSION_KEY])
StartRemove(c) ==
  /\ At(c, "remove")
  /\ currentSession' = <<>>
  /\ pausedSession' = <<>>
  /\ calls' = SetCall(c, [calls[c] EXCEPT !.pc = "clear"])
  /\ result' = Awaiting
  /\ UNCHANGED <<now, browser, pomodoroState, focusSessions, stats, alarm,
                 nextId, blockVars>>

\* line 128: chrome.alarms.clear(ALARM_NAME)
StartClear(c) ==
  /\ At(c, "clear")
  /\ alarm' = <<>>
  /\ calls' = SetCall(c, [calls[c] EXCEPT !.pc = "create"])
  /\ result' = Awaiting
  /\ UNCHANGED <<now, browser, currentSession, pausedSession, pomodoroState,
                 focusSessions, stats, nextId, blockVars>>

\* lines 131-141: the session is built and chrome.alarms.create is called
StartCreate(c, cap) ==
  /\ At(c, "create")
  /\ nextId <= cap
  /\ LET session == [id |-> nextId, startTime |-> now, endTime |-> <<>>,
                     duration |-> calls[c].duration, completed |-> FALSE,
                     type |-> "focus"]
     IN calls' = SetCall(c, [calls[c] EXCEPT !.pc = "setCurrentSession",
                                             !.session = <<session>>])
  /\ nextId' = nextId + 1
  /\ alarm' = <<[when |-> now + calls[c].duration * MsPerMinute]>>
  /\ result' = Awaiting
  /\ UNCHANGED <<now, browser, currentSession, pausedSession, pomodoroState,
                 focusSessions, stats, blockVars>>

\* line 143: chrome.storage.local.set({ [CURRENT_SESSION_KEY]: session })
StartSetCurrentSession(c) ==
  /\ At(c, "setCurrentSession")
  /\ currentSession' = calls[c].session
  /\ calls' = SetCall(c, [calls[c] EXCEPT !.pc = "getFocusSessions"])
  /\ result' = Awaiting
  /\ UNCHANGED <<now, browser, pausedSession, pomodoroState, focusSessions,
                 stats, alarm, nextId, blockVars>>

\* line 144, storage.ts saveFocusSession: const sessions = await getFocusSessions()
StartGetFocusSessions(c) ==
  /\ At(c, "getFocusSessions")
  /\ calls' = SetCall(c, [calls[c] EXCEPT !.pc = "setFocusSessions",
                                          !.sessions = focusSessions])
  /\ result' = Awaiting
  /\ UNCHANGED <<now, browser, timerVars, blockVars>>

\* saveFocusSession writes the list it read, with the session in it; the
\* call returns and handleMessage answers { session }
StartSetFocusSessions(c) ==
  /\ At(c, "setFocusSessions")
  /\ focusSessions' = saveFocusSession(calls[c].sessions, calls[c].session[1])
  /\ calls' = SetCall(c, [calls[c] EXCEPT !.pc = "done"])
  /\ result' = [op |-> "startSession", error |-> <<>>,
                session |-> calls[c].session[1]]
  /\ UNCHANGED <<now, browser, currentSession, pausedSession, pomodoroState,
                 stats, alarm, nextId, blockVars>>

----------------------------------------------------------------------------
(* The start-race specification: two startSession commands whose steps      *)
(* interleave                                                               *)

MaxRaceSessions == 2
MaxRaceMinutes == 1

NextRace ==
  \/ \E c \in CallIds, d \in Durations : BeginStart(c, d)
  \/ \E c \in CallIds : StartGetCurrentSession(c)
  \/ \E c \in CallIds : StartRemove(c)
  \/ \E c \in CallIds : StartClear(c)
  \/ \E c \in CallIds : StartCreate(c, MaxRaceSessions)
  \/ \E c \in CallIds : StartSetCurrentSession(c)
  \/ \E c \in CallIds : StartGetFocusSessions(c)
  \/ \E c \in CallIds : StartSetFocusSessions(c)
  \/ \E d \in Deltas : AdvanceTime(d, MaxRaceMinutes * MsPerMinute)

SpecRace == Init /\ [][NextRace]_vars

\* both calls have returned
BothDone == \A c \in CallIds : At(c, "done")

\* C29: after two concurrent start() calls have both finished, one of their
\* two sessions is current, one wake-up is pending, and it is due at the
\* current session's startTime + duration.
C29_LastWriterWins ==
  BothDone =>
    /\ currentSession \in {calls[c].session : c \in CallIds}
    /\ Len(alarm) = 1
    /\ alarm[1].when =
         currentSession[1].startTime + currentSession[1].duration * MsPerMinute
----------------------------------------------------------------------------
(* The navigation listener as the steps between its awaits *)

\* chrome.webNavigation.onBeforeNavigate is dispatched for a main frame.
\* The call remembers which calls had returned and what the counters were
\* when it began.
BeginNavigate(c, url) ==
  /\ c \notin DOMAIN calls
  /\ calls' = SetCall(c, [fn |-> "onBeforeNavigate", pc |-> "isUrlBlocked",
                          url |-> url, redirected |-> FALSE,
                          order |-> Cardinality(DOMAIN calls),
                          after |-> {k \in DOMAIN calls : calls[k].pc = "done"},
                          before |-> BlockStore,
                          read |-> <<>>, current |-> <<>>, counted |-> <<>>])
  /\ result' = Awaiting
  /\ UNCHANGED <<now, browser, timerVars, blockVars>>

\* line 141: const shouldBlock = await isUrlBlocked(details.url)
NavIsUrlBlocked(c) ==
  /\ At(c, "isUrlBlocked")
  /\ LET checked == isUrlBlocked(BlockStore, calls[c].url)
     IN /\ temporaryBreaks' = checked.store.temporaryBreaks
        /\ calls' = SetCall(c, [calls[c] EXCEPT
                                  !.pc = IF checked.blocked THEN "increment"
                                         ELSE "done"])
        /\ result' = IF checked.blocked THEN Awaiting
                     ELSE [op |-> "onBeforeNavigate", error |-> <<>>,
                           url |-> calls[c].url, frameId |-> 0,
                           redirected |-> FALSE]
  /\ UNCHANGED <<now, browser, timerVars, blockedSites, settings,
                 weeklySchedule>>

\* lines 113-116: incrementBlockCount reads the blocklist and the stats
NavIncrementReads(c) ==
  /\ At(c, "increment")
  /\ calls' = SetCall(c, [calls[c] EXCEPT
                            !.pc = IF Matching(blockedSites, calls[c].url) = {}
                                   THEN "redirect" ELSE "setBlockedSites",
                            !.read = <<BlockStore>>])
  /\ result' = Awaiting
  /\ UNCHANGED <<now, browser, timerVars, blockVars>>

\* lines 118-124: the first matching entry of the list that was read is
\* counted and the list written; updateStats is called with the total that
\* was read plus one, and reads the stats record it will merge into
NavSetBlockedSites(c) ==
  /\ At(c, "setBlockedSites")
  /\ LET counted == incrementBlockCount(calls[c].read[1], calls[c].url)
     IN /\ blockedSites' = counted.blockedSites
        /\ calls' = SetCall(c, [calls[c] EXCEPT
                                  !.pc = "updateStats",
                                  !.current = <<stats>>,
                                  !.counted = <<counted.stats.totalBlocks>>])
  /\ result' = Awaiting
  /\ UNCHANGED <<now, browser, timerVars, settings, weeklySchedule,
                 temporaryBreaks>>

\* storage.ts updateStats, lines 543-544: the merged record is written
NavUpdateStats(c) ==
  /\ At(c, "updateStats")
  /\ stats' = Merge(calls[c].current[1], [totalBlocks |-> calls[c].counted[1]])
  /\ calls' = SetCall(c, [calls[c] EXCEPT !.pc = "redirect"])
  /\ result' = Awaiting
  /\ UNCHANGED <<now, browser, currentSession, pausedSession, pomodoroState,
                 focusSessions, alarm, nextId, blockVars>>

\* lines 147-153: chrome.tabs.update sends the tab to the blocked page
NavRedirect(c) ==
  /\ At(c, "redirect")
  /\ calls' = SetCall(c, [calls[c] EXCEPT !.pc = "done", !.redirected = TRUE])
  /\ result' = [op |-> "onBeforeNavigate", error |-> <<>>,
                url |-> calls[c].url, frameId |-> 0, redirected |-> TRUE]
  /\ UNCHANGED <<now, browser, timerVars, blockVars>>

----------------------------------------------------------------------------
(* The navigation-race specification: a blocklist is set up and navigated   *)
(* to, and then two navigations to the blocked site are handled, one after  *)
(* the other or with their steps interleaved                                *)

MaxNavRaceIds == 2

NextNavRace ==
  \/ calls = <<>> /\ \E domain \in SiteInputs : AddSite(domain, MaxNavRaceIds)
  \/ calls = <<>> /\ ToggleBlocking
  \/ calls = <<>> /\ \E url \in SiteUrls : OnBeforeNavigate(url, 0)
  \/ \E c \in CallIds, url \in SiteUrls : BeginNavigate(c, url)
  \/ \E c \in CallIds : NavIsUrlBlocked(c)
  \/ \E c \in CallIds : NavIncrementReads(c)
  \/ \E c \in CallIds : NavSetBlockedSites(c)
  \/ \E c \in CallIds : NavUpdateStats(c)
  \/ \E c \in CallIds : NavRedirect(c)

SpecNavRace == Init /\ [][NextNavRace]_vars

\* both navigations were to the same URL, were denied, and are over
TwoDenied ==
  /\ \A c \in CallIds : At(c, "done") /\ calls[c].redirected
  /\ calls[1].url = calls[2].url

\* the records when the first of the two navigations began
BeforeBoth ==
  calls[CHOOSE c \in CallIds : calls[c].order = 0].before

\* the second navigation began after the first was over
OneAfterTheOther == \E c \in CallIds : calls[c].after # {}

\* the entry the navigations count: the first that matches
CountedEntry ==
  LET matching == Matching(blockedSites, calls[1].url)
  IN CHOOSE i \in matching : \A j \in matching : i <= j

BlockCountIncrease ==
  blockedSites[CountedEntry].blockCount
    - BeforeBoth.blockedSites[CountedEntry].blockCount

TotalBlocksIncrease == stats.totalBlocks - BeforeBoth.stats.totalBlocks

\* C30: two denied navigations to the same blocked site raise the entry's
\* blockCount and totalBlocks by 2 when one is handled after the other, and
\* by 1 or 2 when their steps interleave; no other entry is counted.
C30_CountsOfTwoNavigations ==
  TwoDenied =>
    /\ BlockCountIncrease \in {1, 2}
    /\ TotalBlocksIncrease \in {1, 2}
    /\ OneAfterTheOther => (BlockCountIncrease = 2 /\ TotalBlocksIncrease = 2)
    /\ \A i \in 1..Len(blockedSites) :
         i # CountedEntry => blockedSites[i] = BeforeBoth.blockedSites[i]

\* the lost update: two interleaved denied navigations, both counters up by 1
C30_Witness ==
  /\ TwoDenied
  /\ ~OneAfterTheOther
  /\ BlockCountIncrease = 1
  /\ TotalBlocksIncrease = 1
----------------------------------------------------------------------------
(* addBlockedSite as the steps between its awaits, interleaved with a        *)
(* navigation that is being recorded                                         *)

\* case "addSite": addBlockedSite reads the list and builds the new entry
AddSiteGet(c, domain, cap) ==
  /\ c \notin DOMAIN calls
  /\ nextId <= cap
  /\ calls' = SetCall(c, [fn |-> "addBlockedSite", pc |-> "setBlockedSites",
                          sites |-> Append(blockedSites,
                                           [id |-> nextId,
                                            domain |-> normalizeSite(domain),
                                            blockCount |-> 0])])
  /\ nextId' = nextId + 1
  /\ result' = Awaiting
  /\ UNCHANGED <<now, browser, currentSession, pausedSession, pomodoroState,
                 focusSessions, stats, alarm, blockVars>>

\* storage.ts line 513: the list that was read, with the new entry, is written
AddSiteSet(c) ==
  /\ At(c, "setBlockedSites")
  /\ calls[c].fn = "addBlockedSite"
  /\ blockedSites' = calls[c].sites
  /\ calls' = SetCall(c, [calls[c] EXCEPT !.pc = "done"])
  /\ result' = [op |-> "addSite", error |-> <<>>,
                site |-> calls[c].sites[Len(calls[c].sites)]]
  /\ UNCHANGED <<now, browser, timerVars, settings, weeklySchedule,
                 temporaryBreaks>>

MaxAddRaceIds == 2

NextAddRace ==
  \/ calls = <<>> /\ AddSite(FACEBOOK, MaxAddRaceIds - 1)
  \/ calls = <<>> /\ \E url \in SiteUrls : OnBeforeNavigate(url, 0)
  \/ \E url \in SiteUrls : BeginNavigate(1, url)
  \/ NavIsUrlBlocked(1)
  \/ NavIncrementReads(1)
  \/ NavSetBlockedSites(1)
  \/ NavUpdateStats(1)
  \/ NavRedirect(1)
  \/ \E domain \in SiteInputs : AddSiteGet(2, domain, MaxAddRaceIds)
  \/ AddSiteSet(2)

SpecAddRace == Init /\ [][NextAddRace]_vars

\* a denied navigation writes the blocklist in this step
RecordsDeny ==
  \/ result'.op = "onBeforeNavigate"
  \/ \E c \in DOMAIN calls :
       /\ calls[c].fn = "onBeforeNavigate"
       /\ calls[c].pc = "setBlockedSites"
       /\ calls'[c].pc = "updateStats"

\* C31: an entry is created with blockCount 0, and the blockCount of an entry
\* that stays in the list changes only by +1, in a step in which a denied
\* navigation is recorded.
C31_BlockCountOnlyByDeny ==
  [][\A i \in 1..Len(blockedSites') :
       LET entry == blockedSites'[i]
           old == {j \in 1..Len(blockedSites) : blockedSites[j].id = entry.id}
       IN IF old = {} THEN entry.blockCount = 0
          ELSE \A j \in old :
                 \/ entry.blockCount = blockedSites[j].blockCount
                 \/ /\ entry.blockCount = blockedSites[j].blockCount + 1
                    /\ RecordsDeny]_vars
----------------------------------------------------------------------------
(* The session history *)

\* the ids of the sessions that were started and whose start has returned
StartedIds ==
  {currentSession[k].id :
     k \in {n \in 1..Len(currentSession) :
              \A c \in DOMAIN calls : calls[c].pc = "done"}} \cup
  {calls[c].session[1].id :
     c \in {k \in DOMAIN calls : /\ calls[k].fn = "startFocusSession"
                                 /\ calls[k].pc = "done"}}

\* C32: a started session is in the history and stays there, the history has
\* at most one entry per session id, and an entry that has an endTime keeps
\* its endTime and its completed flag.
C32_HistoryKept ==
  /\ [](/\ \A id \in StartedIds : Entries(focusSessions, id) # {}
        /\ \A i, j \in 1..Len(focusSessions) :
              focusSessions[i].id = focusSessions[j].id => i = j)
  /\ [][\A i \in 1..Len(focusSessions) :
          LET entry == focusSessions[i]
              kept == Entries(focusSessions', entry.id)
          IN /\ kept # {}
             /\ entry.endTime # <<>> =>
                  \A j \in kept :
                     /\ focusSessions'[j].endTime = entry.endTime
                     /\ focusSessions'[j].completed = entry.completed]_vars
----------------------------------------------------------------------------
(* The break specification: breaks are taken for two host names of a        *)
(* blocked site and run out, with blocking switched on and off and a        *)
(* schedule                                                                 *)

MaxBreakIds == 2
MaxBreakMinutes == 15

NextBreaks ==
  \/ \E url \in SiteUrls : OnBeforeNavigate(url, 0)
  \/ blockedSites = <<>> /\ AddSite(FACEBOOK, MaxBreakIds)
  \/ ToggleBlocking
  \/ \E enabled \in BOOLEAN : UpdateWeeklySchedule([enabled |-> enabled])
  \/ \E slot \in SlotInputs : AddScheduleSlot(slot, MaxBreakIds, MaxSlots)
  \/ \E url \in SiteUrls : TakeBreak(url)
  \/ \E d \in NavDeltas : AdvanceTime(d, MaxBreakMinutes * MsPerMinute)

SpecBreaks == Init /\ [][NextBreaks]_vars

\* the break of the domain has run out
ExpiredBreak(domain) ==
  /\ domain \in DOMAIN temporaryBreaks
  /\ now >= temporaryBreaks[domain]

\* the breaks without the one of the domain
WithoutBreak(domain) ==
  [d \in DOMAIN temporaryBreaks \ {domain} |-> temporaryBreaks[d]]

\* a break that has not run out is in the map after the step
UnexpiredStay ==
  \A d \in DOMAIN temporaryBreaks :
     now < temporaryBreaks[d] => d \in DOMAIN temporaryBreaks'

\* the evaluation gets as far as the breaks: the URL has a domain, is no
\* page of the extension, blocking is enabled and the schedule is active
ReachesBreaks(url) ==
  /\ extractDomain(url) # <<>>
  /\ ~url.extensionPage
  /\ settings.enabled
  /\ isWithinSchedule(weeklySchedule)

\* C33 as stated: every evaluation of a URL whose domain has a break that
\* has run out removes exactly that entry, and no step removes a break
\* that has not run out
C33_ExpiredBreakRemoved ==
  [][/\ UnexpiredStay
     /\ (Navigation /\ ExpiredBreak(extractDomain(result'.url)))
          => temporaryBreaks' = WithoutBreak(extractDomain(result'.url))]_vars

\* C33 amended: an evaluation that gets as far as the breaks removes exactly
\* the run-out entry of the URL's domain and decides by the blocklist alone;
\* an evaluation that returns earlier allows and leaves the map as it is
C33_ExpiredBreakRemovedWhenReached ==
  [][/\ UnexpiredStay
     /\ (Navigation /\ ExpiredBreak(extractDomain(result'.url)))
          => IF ReachesBreaks(result'.url)
             THEN /\ temporaryBreaks' = WithoutBreak(extractDomain(result'.url))
                  /\ result'.redirected =
                       (Matching(blockedSites, result'.url) # {})
             ELSE /\ temporaryBreaks' = temporaryBreaks
                  /\ ~result'.redirected]_vars

\* a navigation was denied after its domain's break had run out: that entry
\* is gone, and the run-out entry of the other host name is still there
C33_Witness ==
  /\ result.op = "onBeforeNavigate"
  /\ result.redirected
  /\ extractDomain(result.url) \notin DOMAIN temporaryBreaks
  /\ \E d \in DOMAIN temporaryBreaks : temporaryBreaks[d] <= now

----------------------------------------------------------------------------
(* The remaining-time command.  handleMessage answers "getTimeRemaining"    *)
(* from the current session and the clock (background/index.ts 287-296);    *)
(* it does not call the timer's getTimeRemaining and does not read the      *)
(* paused record.                                                           *)

\* case "getTimeRemaining": the value of { remaining }
handleGetTimeRemaining(s) ==
  IF s.currentSession = <<>> THEN 0
  ELSE LET session == s.currentSession[1]
           elapsed == now - session.startTime
           totalMs == session.duration * 60 * 1000
           remainingMs == MathMax(0, totalMs - elapsed)
       IN MathRound(remainingMs, MsPerSecond)

GetTimeRemaining ==
  /\ result' = [op |-> "getTimeRemaining", error |-> <<>>,
                remaining |-> handleGetTimeRemaining(Store)]
  /\ UNCHANGED <<timerVars, blockVars, browser, calls, now>>

NextRemaining ==
  \/ StartSession(1, MaxPauseSessions)
  \/ PauseSession
  \/ ResumeSession
  \/ OnAlarm(MaxPauseSessions)
  \/ GetTimeRemaining
  \/ AdvanceTime(PauseDelta, MaxPauseSteps * PauseDelta)

SpecRemaining == Init /\ [][NextRemaining]_vars

\* C34: the remaining time the getTimeRemaining command reports equals the
\* timer's getTimeRemaining() in the state it is asked in: idle, running,
\* expired and not yet ended, and paused (the value frozen at pause time).
C34_CommandReportsRemaining ==
  result.op = "getTimeRemaining" => result.remaining = getTimeRemaining(Store)

----------------------------------------------------------------------------
(* The abandon specification: plain sessions and Pomodoro sessions of both   *)
(* types are ended by command, completed or not, after denied navigations    *)
(* and completed sessions have filled the Stats record.                      *)

MaxAbandonSessions == 3

NextAbandon ==
  \/ StartSession(1, MaxAbandonSessions)
  \/ StartPomodoro(1, 2, 2, MaxAbandonSessions)
  \/ \E id \in 1..MaxAbandonSessions, completed \in BOOLEAN :
        EndSession(id, completed)
  \/ OnAlarm(MaxAbandonSessions)
  \/ AdvanceToAlarm
  \/ blockedSites = <<>> /\ AddSite(FACEBOOK, MaxAbandonSessions)
  \/ OnBeforeNavigate(WebUrl(WWW \o FACEBOOK), 0)

SpecAbandon == Init /\ [][NextAbandon]_vars

\* C35: ending a session as abandoned, endFocusSession(id, false), whatever
\* the session's type, leaves totalFocusTime, sessionsCompleted,
\* currentStreak, longestStreak and totalBlocks as they were
C35_AbandonKeepsStats ==
  [][(result'.op = "endSession" /\ ~result'.completed) => stats' = stats]_vars

\* C35 witness: a break that ran its full length was ended as abandoned when
\* the Stats record held a completed session, a streak and a block
C35_Witness ==
  /\ result.op = "endSession"
  /\ result.error = <<>>
  /\ ~result.completed
  /\ \E i \in Entries(focusSessions, result.sessionId) :
        /\ focusSessions[i].type = "break"
        /\ focusSessions[i].endTime = <<now>>
        /\ now > focusSessions[i].startTime
  /\ stats.sessionsCompleted >= 1
  /\ stats.totalFocusTime >= 1
  /\ stats.currentStreak >= 1
  /\ stats.totalBlocks >= 1

----------------------------------------------------------------------------
(* The plain-session specification: sessions started by startSession with   *)
(* Pomodoro disabled, before and after a Pomodoro run, and the exported     *)
(* handlePomodoroSessionEnd (timer.ts 74-118) called in any state.          *)

MaxPlainSessions == 3

\* timer.ts handlePomodoroSessionEnd, called on its own
HandlePomodoroSessionEnd(cap) ==
  /\ pomodoroState.enabled => nextId <= cap
  /\ LET s == handlePomodoroSessionEnd(Store)
     IN /\ Commit(s)
        /\ result' = [op |-> "handlePomodoroSessionEnd", error |-> <<>>,
                      transition |-> pomodoroSessionEndResult(Store)]
  /\ UNCHANGED <<now, calls, browser, blockVars>>

NextPlain ==
  \/ StartSession(1, MaxPlainSessions)
  \/ StartPomodoro(1, 2, 2, MaxPlainSessions)
  \/ StopPomodoro
  \/ HandlePomodoroSessionEnd(MaxPlainSessions)
  \/ OnAlarm(MaxPlainSessions)
  \/ AdvanceToAlarm

SpecPlain == Init /\ [][NextPlain]_vars

\* C36: with Pomodoro disabled handlePomodoroSessionEnd returns null, starts
\* no session, creates no alarm and leaves the Pomodoro state as it was; and
\* when the alarm listener has handled the alarm of a session with Pomodoro
\* disabled there is no current session, no paused record and no alarm
C36_DisabledTransition ==
  [][/\ (result'.op = "handlePomodoroSessionEnd" /\ ~pomodoroState.enabled)
          => /\ result'.transition = <<>>
             /\ UNCHANGED timerVars
     /\ (result'.op = "onAlarm" /\ ~pomodoroState.enabled)
          => /\ result'.transition = <<>>
             /\ pomodoroState' = pomodoroState
             /\ nextId' = nextId
             /\ currentSession' = <<>>
             /\ pausedSession' = <<>>
             /\ alarm' = <<>>]_vars

\* C36 witness: after a Pomodoro run was stopped a plain session ran to its
\* alarm, the listener recorded it as completed, and handlePomodoroSessionEnd
\* called in that state returned null
C36_Witness ==
  /\ result.op = "handlePomodoroSessionEnd"
  /\ result.transition = <<>>
  /\ ~pomodoroState.enabled
  /\ currentSession = <<>>
  /\ alarm = <<>>
  /\ Len(focusSessions) >= 2
  /\ \E i \in 1..Len(focusSessions) :
        /\ focusSessions[i].type = "focus"
        /\ focusSessions[i].completed
        /\ focusSessions[i].endTime = <<now>>
        /\ now = focusSessions[i].startTime + focusSessions[i].duration * MsPerMinute
  /\ stats.sessionsCompleted >= 1

----------------------------------------------------------------------------
(* The timer's handlers as the steps between their awaits.  A call in       *)
(* flight keeps the handler that was dispatched (fn), its position (pc),    *)
(* and the locals of the functions it runs.  A throw ends the call: the     *)
(* listeners catch it (background/index.ts 200-202, 217-219).               *)

NewCall(fn, pc) ==
  [fn |-> fn, pc |-> pc, sessionId |-> <<>>, completed |-> FALSE,
   enabled |-> FALSE, session |-> <<>>, endTime |-> 0, sessions |-> <<>>,
   partial |-> <<>>, merged |-> <<>>, nextDuration |-> 0,
   nextType |-> "focus", error |-> <<>>]

\* one step of call c: r.s is the storage and the alarm after the step, r.k
\* the call after it; the handler answers when the call is done
TakeStep(c, r) ==
  /\ Commit(r.s)
  /\ calls' = SetCall(c, r.k)
  /\ result' = IF r.k.pc = "done" THEN [op |-> r.k.fn, error |-> r.k.error]
               ELSE Awaiting
  /\ UNCHANGED <<now, browser, blockVars>>

\* where a call goes on when endFocusSession has returned
AfterEnd(k) ==
  CASE k.fn = "endSession" -> "done"
    [] k.fn = "onAlarm" -> IF k.enabled THEN "transition:getPomodoroState"
                           ELSE "done"
    [] k.fn = "stopPomodoro" -> "stop:getPomodoroState"

\* a message is dispatched to handleMessage: case "endSession" calls
\* endFocusSession(payload.sessionId, payload.completed), case "stopPomodoro"
\* calls stopPomodoroMode()
BeginMessage(c, type, sessionId, completed) ==
  /\ c \notin DOMAIN calls
  /\ type \in {"endSession", "stopPomodoro"}
  /\ calls' = SetCall(c,
       IF type = "endSession"
       THEN [NewCall(type, "end:getCurrentSession") EXCEPT
               !.sessionId = <<sessionId>>, !.completed = completed]
       ELSE NewCall(type, "stop:getCurrentSession"))
  /\ result' = Awaiting
  /\ UNCHANGED <<now, browser, timerVars, blockVars>>

\* the one-shot alarm is due and fires: the listener is dispatched
BeginOnAlarm(c) ==
  /\ c \notin DOMAIN calls
  /\ alarm # <<>>
  /\ now >= alarm[1].when
  /\ alarm' = <<>>
  /\ calls' = SetCall(c, NewCall("onAlarm", "alarm:getCurrentSession"))
  /\ result' = Awaiting
  /\ UNCHANGED <<now, browser, currentSession, pausedSession, pomodoroState,
                 focusSessions, stats, nextId, blockVars>>

\* index.ts 166-171: the listener reads the session and the Pomodoro state
\* and, with a session, calls endFocusSession(session.id, true)
OnAlarmStep(c) ==
  /\ c \in DOMAIN calls
  /\ calls[c].pc \in {"alarm:getCurrentSession", "alarm:getPomodoroState"}
  /\ LET k == calls[c]
     IN TakeStep(c,
          IF k.pc = "alarm:getCurrentSession"
          THEN [s |-> Store,
                k |-> [k EXCEPT !.session = currentSession,
                                !.pc = "alarm:getPomodoroState"]]
          ELSE [s |-> Store,
                k |-> IF k.session = <<>>
                      THEN [k EXCEPT !.pc = "done"]
                      ELSE [k EXCEPT !.enabled = pomodoroState.enabled,
                                     !.sessionId = <<k.session[1].id>>,
                                     !.completed = TRUE,
                                     !.session = <<>>,
                                     !.pc = "end:getCurrentSession"]])

\* timer.ts endFocusSession 149-188, with saveFocusSession (storage.ts
\* 552-561), getStats and updateStats (536-545)
EndFocusSessionStep(c) ==
  /\ c \in DOMAIN calls
  /\ calls[c].pc \in {"end:getCurrentSession", "end:getFocusSessions",
                      "end:setFocusSessions", "end:clear", "end:remove",
                      "end:getStats", "end:updateStats", "end:setStats"}
  /\ LET k == calls[c]
         s == Store
     IN TakeStep(c,
          CASE k.pc = "end:getCurrentSession" ->
                 \* 150-156: the guard, then endTime = Date.now()
                 IF currentSession = <<>>
                    \/ <<currentSession[1].id>> # k.sessionId
                 THEN [s |-> s, k |-> [k EXCEPT !.error = <<SessionNotFound>>,
                                                !.pc = "done"]]
                 ELSE [s |-> s, k |-> [k EXCEPT !.session = currentSession,
                                                !.endTime = now,
                                                !.pc = "end:getFocusSessions"]]
            [] k.pc = "end:getFocusSessions" ->
                 \* 164, saveFocusSession: await getFocusSessions()
                 [s |-> s, k |-> [k EXCEPT !.sessions = focusSessions,
                                           !.pc = "end:setFocusSessions"]]
            [] k.pc = "end:setFocusSessions" ->
                 \* saveFocusSession writes the list it read
                 [s |-> [s EXCEPT !.focusSessions =
                           saveFocusSession(k.sessions,
                             [k.session[1] EXCEPT !.endTime = <<k.endTime>>,
                                                  !.completed = k.completed])],
                  k |-> [k EXCEPT !.pc = "end:clear"]]
            [] k.pc = "end:clear" ->
                 \* 165: chrome.alarms.clear(ALARM_NAME)
                 [s |-> [s EXCEPT !.alarm = <<>>],
                  k |-> [k EXCEPT !.pc = "end:remove"]]
            [] k.pc = "end:remove" ->
                 \* 166: remove([CURRENT_SESSION_KEY, PAUSED_SESSION_KEY])
                 [s |-> [s EXCEPT !.currentSession = <<>>,
                                  !.pausedSession = <<>>],
                  k |-> [k EXCEPT !.pc = IF k.completed THEN "end:getStats"
                                         ELSE AfterEnd(k)]]
            [] k.pc = "end:getStats" ->
                 \* 169-186: the stats are read and the new values computed
                 LET counted == completedStats(s, k.session[1],
                                  MathRound(k.endTime - k.session[1].startTime,
                                            MsPerMinute)).stats
                 IN [s |-> s,
                     k |-> [k EXCEPT
                              !.partial =
                                 <<[f \in {"totalFocusTime", "sessionsCompleted",
                                           "currentStreak", "longestStreak"}
                                      |-> counted[f]]>>,
                              !.pc = "end:updateStats"]]
            [] k.pc = "end:updateStats" ->
                 \* updateStats: const current = await getStats()
                 [s |-> s, k |-> [k EXCEPT !.merged = <<Merge(stats, k.partial[1])>>,
                                           !.pc = "end:setStats"]]
            [] k.pc = "end:setStats" ->
                 \* updateStats writes the merged record
                 [s |-> [s EXCEPT !.stats = k.merged[1]],
                  k |-> [k EXCEPT !.pc = AfterEnd(k)]])

----------------------------------------------------------------------------
(* The end-race specification: a session runs to its alarm, the alarm       *)
(* listener handles it, and an endSession command for the session arrives   *)
(* before, while or after the listener runs.                                *)

MaxEndRaceSessions == 2

NextEndRace ==
  \/ calls = <<>> /\ currentSession = <<>> /\ StartSession(1, MaxEndRaceSessions)
  \/ calls = <<>> /\ AdvanceToAlarm
  \/ BeginOnAlarm(1)
  \/ OnAlarmStep(1)
  \/ /\ currentSession # <<>>
     /\ BeginMessage(2, "endSession", currentSession[1].id, TRUE)
  \/ \E c \in CallIds : EndFocusSessionStep(c)

SpecEndRace == Init /\ [][NextEndRace]_vars

\* the alarm listener and the endSession command have both finished, and both
\* were for the session with this id
BothEnded(id) ==
  /\ At(1, "done") /\ At(2, "done")
  /\ calls[1].sessionId = <<id>>
  /\ calls[2].sessionId = <<id>>

\* C37: when the alarm listener and an endSession(sessionId, true) command for
\* the same session have both run, the session is counted in the stats once:
\* sessionsCompleted is 1 more and totalFocusTime is the session's elapsed
\* minutes more than before the two
C37_CountedOnce ==
  \A id \in 1..MaxEndRaceSessions :
     (BothEnded(id) /\ Len(focusSessions) = 1) =>
        /\ stats.sessionsCompleted = 1
        /\ stats.totalFocusTime = focusSessions[1].duration

----------------------------------------------------------------------------
(* stopPomodoroMode and handlePomodoroSessionEnd as the steps between their *)
(* awaits.  Between endFocusSession and handlePomodoroSessionEnd the alarm  *)
(* listener awaits getSettings() (index.ts 173), which reads a key no timer *)
(* handler writes; the step is joined with the read that follows it.        *)

\* timer.ts stopPomodoroMode 66-72, with updatePomodoroState 37-42
StopPomodoroModeStep(c) ==
  /\ c \in DOMAIN calls
  /\ calls[c].pc \in {"stop:getCurrentSession", "stop:getPomodoroState",
                      "stop:setPomodoroState"}
  /\ LET k == calls[c]
         s == Store
     IN TakeStep(c,
          CASE k.pc = "stop:getCurrentSession" ->
                 \* 67-69: with a session, endFocusSession(session.id, false)
                 [s |-> s,
                  k |-> IF currentSession # <<>>
                        THEN [k EXCEPT !.sessionId = <<currentSession[1].id>>,
                                       !.completed = FALSE,
                                       !.pc = "end:getCurrentSession"]
                        ELSE [k EXCEPT !.pc = "stop:getPomodoroState"]]
            [] k.pc = "stop:getPomodoroState" ->
                 \* 71, updatePomodoroState: const current = await getPomodoroState()
                 [s |-> s,
                  k |-> [k EXCEPT !.merged = <<Merge(pomodoroState,
                                                     [enabled |-> FALSE])>>,
                                  !.pc = "stop:setPomodoroState"]]
            [] k.pc = "stop:setPomodoroState" ->
                 \* updatePomodoroState writes the merged state
                 [s |-> [s EXCEPT !.pomodoroState = k.merged[1]],
                  k |-> [k EXCEPT !.pc = "done"]])

\* timer.ts handlePomodoroSessionEnd 74-118, with updatePomodoroState 37-42
\* and startFocusSession 120-147; cap bounds the sessions generateId() creates
HandlePomodoroSessionEndStep(c, cap) ==
  /\ c \in DOMAIN calls
  /\ calls[c].pc \in {"transition:getPomodoroState",
                      "transition:updateGet", "transition:updateSet",
                      "start:getCurrentSession", "start:remove",
                      "start:clear", "start:create",
                      "start:setCurrentSession", "start:getFocusSessions",
                      "start:setFocusSessions"}
  /\ calls[c].pc = "start:create" => nextId <= cap
  /\ LET k == calls[c]
         s == Store
     IN TakeStep(c,
          CASE k.pc = "transition:getPomodoroState" ->
                 \* 78-112: null when disabled, else the next session and
                 \* the new state are chosen from the state read here
                 IF ~pomodoroState.enabled
                 THEN [s |-> s, k |-> [k EXCEPT !.pc = "done"]]
                 ELSE LET t == pomodoroTransition(pomodoroState)
                      IN [s |-> s,
                          k |-> [k EXCEPT !.partial = <<t.newState>>,
                                          !.nextDuration = t.nextDuration,
                                          !.nextType = t.nextType,
                                          !.pc = "transition:updateGet"]]
            [] k.pc = "transition:updateGet" ->
                 \* 114, updatePomodoroState: const current = await getPomodoroState()
                 [s |-> s,
                  k |-> [k EXCEPT !.merged = <<Merge(pomodoroState, k.partial[1])>>,
                                  !.pc = "transition:updateSet"]]
            [] k.pc = "transition:updateSet" ->
                 \* updatePomodoroState writes the merged state
                 [s |-> [s EXCEPT !.pomodoroState = k.merged[1]],
                  k |-> [k EXCEPT !.pc = "start:getCurrentSession"]]
            [] k.pc = "start:getCurrentSession" ->
                 \* 115, startFocusSession 124-125
                 [s |-> s,
                  k |-> [k EXCEPT !.pc = IF currentSession # <<>>
                                         THEN "start:remove"
                                         ELSE "start:create"]]
            [] k.pc = "start:remove" ->
                 \* 127
                 [s |-> [s EXCEPT !.currentSession = <<>>,
                                  !.pausedSession = <<>>],
                  k |-> [k EXCEPT !.pc = "start:clear"]]
            [] k.pc = "start:clear" ->
                 \* 128
                 [s |-> [s EXCEPT !.alarm = <<>>],
                  k |-> [k EXCEPT !.pc = "start:create"]]
            [] k.pc = "start:create" ->
                 \* 131-141: the session is built and the alarm created
                 [s |-> [s EXCEPT
                           !.nextId = @ + 1,
                           !.alarm = <<[when |-> now + k.nextDuration * MsPerMinute]>>],
                  k |-> [k EXCEPT
                           !.session = <<[id |-> nextId, startTime |-> now,
                                          endTime |-> <<>>,
                                          duration |-> k.nextDuration,
                                          completed |-> FALSE,
                                          type |-> k.nextType]>>,
                           !.pc = "start:setCurrentSession"]]
            [] k.pc = "start:setCurrentSession" ->
                 \* 143
                 [s |-> [s EXCEPT !.currentSession = k.session],
                  k |-> [k EXCEPT !.pc = "start:getFocusSessions"]]
            [] k.pc = "start:getFocusSessions" ->
                 \* 144, saveFocusSession: await getFocusSessions()
                 [s |-> s, k |-> [k EXCEPT !.sessions = focusSessions,
                                           !.pc = "start:setFocusSessions"]]
            [] k.pc = "start:setFocusSessions" ->
                 \* saveFocusSession writes the list it read
                 [s |-> [s EXCEPT !.focusSessions =
                                     saveFocusSession(k.sessions, k.session[1])],
                  k |-> [k EXCEPT !.pc = "done"]])

----------------------------------------------------------------------------
(* The stop-race specification: a Pomodoro session runs to its alarm, the   *)
(* alarm listener ends it and starts the next one, and a stopPomodoro       *)
(* command arrives before, while or after the listener runs.                *)

MaxStopRaceSessions == 2

NextStopRace ==
  \/ /\ calls = <<>> /\ currentSession = <<>>
     /\ StartPomodoro(1, 2, 2, MaxStopRaceSessions - 1)
  \/ calls = <<>> /\ AdvanceToAlarm
  \/ BeginOnAlarm(1)
  \/ OnAlarmStep(1)
  \/ 1 \in DOMAIN calls /\ BeginMessage(2, "stopPomodoro", 0, FALSE)
  \/ \E c \in CallIds : EndFocusSessionStep(c)
  \/ HandlePomodoroSessionEndStep(1, MaxStopRaceSessions)
  \/ StopPomodoroModeStep(2)

SpecStopRace == Init /\ [][NextStopRace]_vars

\* C38: when a stopPomodoro command and the alarm listener that was running
\* its Pomodoro transition have both finished, Pomodoro is disabled, no
\* session is current and no alarm is pending
C38_StopWins ==
  (At(1, "done") /\ At(2, "done")) =>
     /\ ~pomodoroState.enabled
     /\ currentSession = <<>>
     /\ alarm = <<>>

----------------------------------------------------------------------------
(* The cycle specification: a Pomodoro run driven by the alarm alone.  The  *)
(* alarm listener runs as the steps between its awaits; when it has         *)
(* returned the next alarm can be dispatched.  Commands (startPomodoro,     *)
(* stopPomodoro) arrive only while no listener is running.                  *)
(* Fairness: chrome.alarms dispatches an alarm that is due, and the event   *)
(* loop resumes a handler whose awaited storage or alarm call has settled,  *)
(* so a step that stays enabled is taken.                                   *)

MaxCycleSessions == 4

CycleArgs == {<<1, 1, 2>>, <<2, 1, 1>>}

\* the listener's promise has settled
Return(c) ==
  /\ At(c, "done")
  /\ calls' = [k \in DOMAIN calls \ {c} |-> calls[k]]
  /\ result' = Awaiting
  /\ UNCHANGED <<now, browser, timerVars, blockVars>>

NextCycle ==
  \/ /\ calls = <<>> /\ ~pomodoroState.enabled
     /\ \E a \in CycleArgs : StartPomodoro(a[1], a[2], a[3], MaxCycleSessions)
  \/ calls = <<>> /\ StopPomodoro
  \/ calls = <<>> /\ AdvanceToAlarm
  \/ BeginOnAlarm(1)
  \/ OnAlarmStep(1)
  \/ EndFocusSessionStep(1)
  \/ HandlePomodoroSessionEndStep(1, MaxCycleSessions)
  \/ Return(1)

SpecCycle ==
  /\ Init
  /\ [][NextCycle]_vars
  /\ WF_vars(BeginOnAlarm(1))
  /\ WF_vars(OnAlarmStep(1))
  /\ WF_vars(EndFocusSessionStep(1))
  /\ WF_vars(HandlePomodoroSessionEndStep(1, MaxCycleSessions))
  /\ WF_vars(Return(1))

\* the alarm of the session with this id and type has fired with Pomodoro
\* enabled, and the listener has been dispatched
Fired(id, type) ==
  /\ At(1, "alarm:getCurrentSession")
  /\ pomodoroState.enabled
  /\ currentSession # <<>>
  /\ currentSession[1].id = id
  /\ currentSession[1].type = type

\* a later session of the other type is current and its alarm is pending
NextSessionRuns(id, type) ==
  /\ currentSession # <<>>
  /\ currentSession[1].id > id
  /\ currentSession[1].type # type
  /\ alarm = <<[when |-> currentSession[1].startTime
                           + currentSession[1].duration * MsPerMinute]>>

\* C39: with Pomodoro enabled and no command arriving while the listener
\* runs, every firing of the session-end alarm leads to a state where a new
\* session of the other type is current and a new alarm is pending
C39_CycleGoesOn ==
  \A id \in 1..(MaxCycleSessions - 1), type \in SessionTypes :
     Fired(id, type) ~> NextSessionRuns(id, type)

\* C39 witness: the listener has returned after the alarm of a break, the
\* focus session that follows it is current with its alarm pending, and the
\* focus session and the break before it are recorded as completed
C39_Witness ==
  /\ At(1, "done")
  /\ pomodoroState.enabled
  /\ ~pomodoroState.isOnBreak
  /\ currentSession # <<>>
  /\ currentSession[1].type = "focus"
  /\ alarm # <<>>
  /\ Len(focusSessions) >= 3
  /\ \E i \in 1..Len(focusSessions) :
        /\ focusSessions[i].type = "break"
        /\ focusSessions[i].completed
        /\ focusSessions[i].id = currentSession[1].id - 1
        /\ focusSessions[i].endTime = <<currentSession[1].startTime>>

----------------------------------------------------------------------------
(* The streak counters of the Stats record *)

\* C40: in every reachable state longestStreak >= currentStreak >= 0, and
\* currentStreak >= 1 once a session has been counted as completed
C40_StreakBounds ==
  /\ stats.longestStreak >= stats.currentStreak
  /\ stats.currentStreak >= 0
  /\ stats.sessionsCompleted >= 1 => stats.currentStreak >= 1

\* C40 witness: the alarm listener counted a session that broke a streak of
\* 2: the current streak is back at 1 and the longest stays 2
C40_Witness ==
  /\ result.op = "onAlarm"
  /\ stats.sessionsCompleted >= 3
  /\ stats.currentStreak = 1
  /\ stats.longestStreak = 2
  /\ \E i \in 1..Len(focusSessions) :
        /\ focusSessions[i].completed
        /\ focusSessions[i].endTime = <<now>>
====
